---------------------------- MODULE Spec2Model ----------------------------
(***************************************************************************)
(* Model of rtplan_complexity/metrics.py: the UCoMX complexity metrics of  *)
(* a radiotherapy plan (control-arc midpoints, active leaves, union        *)
(* aperture, LSV / AAV / MCS, delivery time, plan aggregation) and the     *)
(* aperture-modulation (PAM) geometry.                                     *)
(*                                                                         *)
(* Numbers.  Lengths are integers in units of 0.5 mm (so the default leaf  *)
(* width of 5.0 mm is 10), every input position is an even number of       *)
(* units, and therefore every midpoint (x1 + x2) / 2.0 and every           *)
(* total_width / 2.0 of the code is again an integer.  Areas are in        *)
(* units^2 (0.25 mm^2).  Quotients of the code (float division) are exact  *)
(* rationals <<numerator, denominator>>, denominator > 0, in lowest terms. *)
(* Python's None is the empty sequence <<>>, a present value v is <<v>>.   *)
(* Python lists are sequences; list index i of the code is index i + 1     *)
(* here.  An IndexError / ZeroDivisionError of the code is the value of    *)
(* the variable raised.                                                    *)
(***************************************************************************)
EXTENDS Integers, Sequences, FiniteSets, TLC

-----------------------------------------------------------------------------
(* Arithmetic helpers                                                      *)

Abs(x) == IF x < 0 THEN -x ELSE x
Min2(x, y) == IF x <= y THEN x ELSE y
Max2(x, y) == IF x >= y THEN x ELSE y

RECURSIVE Gcd(_, _)
Gcd(a, b) == IF b = 0 THEN a ELSE Gcd(b, a % b)

\* the float quotient n / d (d # 0) as an exact rational in lowest terms
Rat(n, d) ==
    LET g == Gcd(Abs(n), Abs(d))
        s == IF d < 0 THEN -1 ELSE 1
    IN  <<(s * n) \div g, (s * d) \div g>>

RZero == <<0, 1>>
ROne == <<1, 1>>
RInt(n) == <<n, 1>>
RAdd(p, q) == Rat(p[1] * q[2] + q[1] * p[2], p[2] * q[2])
RSub(p, q) == Rat(p[1] * q[2] - q[1] * p[2], p[2] * q[2])
RMul(p, q) == Rat(p[1] * q[1], p[2] * q[2])
\* p / q for q # 0
RDiv(p, q) == Rat(p[1] * q[2], p[2] * q[1])
RLe(p, q) == p[1] * q[2] <= q[1] * p[2]
RLt(p, q) == p[1] * q[2] < q[1] * p[2]
RMax(p, q) == IF RLe(q, p) THEN p ELSE q
RMin(p, q) == IF RLe(p, q) THEN p ELSE q
RIn01(p) == RLe(RZero, p) /\ RLe(p, ROne)

RECURSIVE SeqSum(_)
SeqSum(s) == IF s = <<>> THEN 0 ELSE s[1] + SeqSum(Tail(s))

RECURSIVE RSeqSum(_)
RSeqSum(s) == IF s = <<>> THEN RZero ELSE RAdd(s[1], RSeqSum(Tail(s)))

\* sum(v[i] * w[i]) over two lists of rationals of the same length
RECURSIVE RDot(_, _)
RDot(v, w) ==
    IF v = <<>> THEN RZero ELSE RAdd(RMul(v[1], w[1]), RDot(Tail(v), Tail(w)))

None == <<>>
Some(v) == <<v>>
IsNone(m) == m = <<>>
\* Python's  m or d  for an Optional number m: d when m is None or 0
PyOr(m, d) == IF m = <<>> THEN d ELSE IF m[1] = 0 THEN d ELSE m[1]
\* Python's  n or d  for an int n
IntOr(n, d) == IF n = 0 THEN d ELSE n

-----------------------------------------------------------------------------
(* Leaf geometry: metrics.py compute_leaf_boundaries,                      *)
(* get_effective_leaf_boundaries                                           *)

\* default_width = 5.0 mm, in units of 0.5 mm
DefaultLeafWidth == 10

\* default leaf-pair count of calculate_beam_metrics (or 60)
DefaultLeafPairs == 60

\* x / 2.0 for the even x the inputs produce
Half(x) == x \div 2

\* leaf_widths[i] if i < len(leaf_widths) else default_width  (i is 1-based here)
WidthAt(leaf_widths, i) ==
    IF i <= Len(leaf_widths) THEN leaf_widths[i] ELSE DefaultLeafWidth

\* sum of the first k widths, missing widths taken as the default
RECURSIVE WidthPrefix(_, _)
WidthPrefix(leaf_widths, k) ==
    IF k = 0 THEN 0 ELSE WidthPrefix(leaf_widths, k - 1) + WidthAt(leaf_widths, k)

\* the boundaries that start at 0 instead of being centred
LeafBoundariesFromZero(leaf_widths, num_pairs) ==
    [i \in 1..(Min2(Len(leaf_widths), num_pairs) + 1) |->
        WidthPrefix(leaf_widths, i - 1)]

compute_leaf_boundaries(leaf_widths, num_pairs) ==
    LET n == Min2(Len(leaf_widths), num_pairs)
        offset == Half(WidthPrefix(leaf_widths, n))
    IN  [i \in 1..(n + 1) |-> WidthPrefix(leaf_widths, i - 1) - offset]

get_effective_leaf_boundaries(beam) ==
    IF Len(beam.mlc_leaf_boundaries) > 0
    THEN beam.mlc_leaf_boundaries
    ELSE compute_leaf_boundaries(beam.mlc_leaf_widths,
                                 IntOr(beam.number_of_leaves, Len(beam.mlc_leaf_widths)))

-----------------------------------------------------------------------------
(* Control-arc helpers: determine_active_leaves, calculate_area_ca,        *)
(* calculate_lsv_bank                                                      *)

\* max(0.0, min(upper, jaw_y2) - max(lower, jaw_y1))
EffWidth(lower, upper, jaw_y1, jaw_y2) ==
    Max2(0, Min2(upper, jaw_y2) - Max2(lower, jaw_y1))

\* every leaf pair with an open midpoint counted as active, whatever the
\* minimum gap and the jaws
ActiveWhenOpen(gaps, leaf_bounds, jaw_y1, jaw_y2, min_gap) ==
    [k \in 1..Len(gaps) |-> gaps[k] > 0]

\* determine_active_leaves reads leaf_bounds[k + 1] for every k < len(gaps):
\* an IndexError when the boundary list has fewer than len(gaps) + 1 entries
determine_active_leaves_raises(gaps, leaf_bounds) ==
    Len(gaps) > 0 /\ Len(leaf_bounds) < Len(gaps) + 1

determine_active_leaves(gaps, leaf_bounds, jaw_y1, jaw_y2, min_gap) ==
    [k \in 1..Len(gaps) |->
        LET within_jaw == leaf_bounds[k + 1] > jaw_y1 /\ leaf_bounds[k] < jaw_y2
        IN  within_jaw /\ gaps[k] > min_gap]

\* one leaf pair's term of calculate_area_ca
AreaCaTerm(bank_a, bank_b, leaf_bounds, jaw_y1, jaw_y2, active_mask, k) ==
    IF ~active_mask[k] THEN 0
    ELSE IF bank_b[k] - bank_a[k] <= 0 THEN 0
    ELSE (bank_b[k] - bank_a[k])
         * EffWidth(leaf_bounds[k], leaf_bounds[k + 1], jaw_y1, jaw_y2)

calculate_area_ca(bank_a, bank_b, leaf_bounds, jaw_y1, jaw_y2, active_mask) ==
    SeqSum([k \in 1..Len(bank_a) |->
        AreaCaTerm(bank_a, bank_b, leaf_bounds, jaw_y1, jaw_y2, active_mask, k)])

RECURSIVE SeqMax(_)
SeqMax(s) == IF Len(s) = 1 THEN s[1] ELSE Max2(s[1], SeqMax(Tail(s)))

\* the bank LSV that scores 1 whenever every adjacent difference is the largest
LsvBankOneWhenDiffsEqual(positions, active_mask) ==
    LET active_idx == SelectSeq([i \in 1..Len(positions) |-> i],
                                LAMBDA i : active_mask[i])
        diffs == [i \in 1..(Len(active_idx) - 1) |->
                    Abs(positions[active_idx[i + 1]] - positions[active_idx[i]])]
    IN  IF Len(active_idx) < 2 THEN ROne
        ELSE IF \A i \in 1..Len(diffs) : diffs[i] = SeqMax(diffs) THEN ROne
        ELSE RDiv(RSeqSum([i \in 1..Len(diffs) |->
                              RSub(ROne, Rat(diffs[i], SeqMax(diffs)))]),
                  RInt(Len(diffs)))

calculate_lsv_bank(positions, active_mask) ==
    LET active_idx == SelectSeq([i \in 1..Len(positions) |-> i],
                                LAMBDA i : active_mask[i])
        diffs == [i \in 1..(Len(active_idx) - 1) |->
                    Abs(positions[active_idx[i + 1]] - positions[active_idx[i]])]
    IN  IF Len(active_idx) < 2 THEN ROne
        ELSE IF SeqMax(diffs) = 0 THEN ROne
        ELSE RDiv(RSeqSum([i \in 1..Len(diffs) |->
                              RSub(ROne, Rat(diffs[i], SeqMax(diffs)))]),
                  RInt(Len(diffs)))

-----------------------------------------------------------------------------
(* Per-control-point geometry with full X+Y jaw clipping                   *)

\* top edge of leaf i (1-based) of a stack of n leaves centred on 0
LeafTop(leaf_widths, n, i) ==
    WidthPrefix(leaf_widths, i - 1) - Half(WidthPrefix(leaf_widths, n))

ApertureAreaTerm(mlc_positions, leaf_widths, jaw_positions, n, i) ==
    LET has_x_jaw == jaw_positions.x1 # 0 \/ jaw_positions.x2 # 0
        leaf_top == LeafTop(leaf_widths, n, i)
        leaf_bot == leaf_top + WidthAt(leaf_widths, i)
        eff_width == EffWidth(leaf_top, leaf_bot, jaw_positions.y1, jaw_positions.y2)
        a == IF has_x_jaw THEN Max2(mlc_positions.bank_a[i], jaw_positions.x1)
                          ELSE mlc_positions.bank_a[i]
        b == IF has_x_jaw THEN Min2(mlc_positions.bank_b[i], jaw_positions.x2)
                          ELSE mlc_positions.bank_b[i]
    IN  IF eff_width <= 0 THEN 0
        ELSE IF b - a <= 0 THEN 0
        ELSE (b - a) * eff_width

\* the area that ignores the jaws
ApertureAreaUnclipped(mlc_positions, leaf_widths, jaw_positions) ==
    SeqSum([i \in 1..Min2(Len(mlc_positions.bank_a), Len(mlc_positions.bank_b)) |->
        Max2(0, mlc_positions.bank_b[i] - mlc_positions.bank_a[i])
        * WidthAt(leaf_widths, i)])

calculate_aperture_area(mlc_positions, leaf_widths, jaw_positions) ==
    LET bank_a == mlc_positions.bank_a
        bank_b == mlc_positions.bank_b
        n == Min2(Min2(Len(bank_a), Len(bank_b)),
                  IF Len(leaf_widths) > 0 THEN Len(leaf_widths) ELSE Len(bank_a))
    IN  IF Len(bank_a) = 0 \/ Len(bank_b) = 0 THEN 0
        ELSE SeqSum([i \in 1..n |->
                ApertureAreaTerm(mlc_positions, leaf_widths, jaw_positions, n, i)])

\* the leaf walk that leaves out the end-caps of an open leaf
PerimeterStepWithoutEndCaps(st, leaf_top, leaf_bot, bank_a_i, bank_b_i, jaw) ==
    LET eff_width == EffWidth(leaf_top, leaf_bot, jaw.y1, jaw.y2)
        a == Max2(bank_a_i, jaw.x1)
        b == Min2(bank_b_i, jaw.x2)
        gap == b - a
    IN  IF eff_width <= 0 \/ gap <= 0
        THEN [perimeter |-> st.perimeter
                            + (IF st.prev_open THEN st.prev_b - st.prev_a ELSE 0),
              prev_open |-> FALSE, prev_a |-> st.prev_a, prev_b |-> st.prev_b]
        ELSE [perimeter |-> st.perimeter
                            + (IF ~st.prev_open THEN gap
                               ELSE Abs(a - st.prev_a) + Abs(b - st.prev_b)),
              prev_open |-> TRUE, prev_a |-> a, prev_b |-> b]

\* one iteration of the leaf walk of calculate_aperture_perimeter
PerimeterStep(st, leaf_top, leaf_bot, bank_a_i, bank_b_i, jaw) ==
    LET eff_width == EffWidth(leaf_top, leaf_bot, jaw.y1, jaw.y2)
        a == Max2(bank_a_i, jaw.x1)
        b == Min2(bank_b_i, jaw.x2)
        gap == b - a
    IN  IF eff_width <= 0 \/ gap <= 0
        THEN [perimeter |-> st.perimeter
                            + (IF st.prev_open THEN st.prev_b - st.prev_a ELSE 0),
              prev_open |-> FALSE, prev_a |-> st.prev_a, prev_b |-> st.prev_b]
        ELSE [perimeter |-> st.perimeter
                            + (IF ~st.prev_open THEN gap
                               ELSE Abs(a - st.prev_a) + Abs(b - st.prev_b))
                            + eff_width * 2,
              prev_open |-> TRUE, prev_a |-> a, prev_b |-> b]

RECURSIVE PerimeterWalk(_, _, _, _, _)
PerimeterWalk(mlc_positions, leaf_widths, jaw, n, i) ==
    IF i = 0
    THEN [perimeter |-> 0, prev_open |-> FALSE, prev_a |-> 0, prev_b |-> 0]
    ELSE PerimeterStep(PerimeterWalk(mlc_positions, leaf_widths, jaw, n, i - 1),
                       LeafTop(leaf_widths, n, i),
                       LeafTop(leaf_widths, n, i) + WidthAt(leaf_widths, i),
                       mlc_positions.bank_a[i], mlc_positions.bank_b[i], jaw)

calculate_aperture_perimeter(mlc_positions, leaf_widths, jaw_positions) ==
    LET n == Min2(Len(mlc_positions.bank_a), Len(mlc_positions.bank_b))
        st == PerimeterWalk(mlc_positions, leaf_widths, jaw_positions, n, n)
    IN  IF n = 0 THEN 0
        ELSE st.perimeter + (IF st.prev_open THEN st.prev_b - st.prev_a ELSE 0)

\* the smallest positive gap of a control point, <<>> for float('inf')
RECURSIVE MinPositiveGap(_, _)
MinPositiveGap(mlc_positions, n) ==
    IF n = 0 THEN None
    ELSE LET rest == MinPositiveGap(mlc_positions, n - 1)
             gap == mlc_positions.bank_b[n] - mlc_positions.bank_a[n]
         IN  IF gap > 0 /\ (IsNone(rest) \/ gap < rest[1]) THEN Some(gap) ELSE rest

\* thresholds in mm; gaps are in units of 0.5 mm
check_small_apertures(mlc_positions) ==
    LET m == MinPositiveGap(mlc_positions,
                            Min2(Len(mlc_positions.bank_a), Len(mlc_positions.bank_b)))
    IN  [below_2mm |-> ~IsNone(m) /\ m[1] < 2 * 2,
         below_5mm |-> ~IsNone(m) /\ m[1] < 2 * 5,
         below_10mm |-> ~IsNone(m) /\ m[1] < 2 * 10,
         below_20mm |-> ~IsNone(m) /\ m[1] < 2 * 20]

\* legacy per-control-point LSV
calculate_lsv(mlc_positions, leaf_widths) ==
    LET bank_a == mlc_positions.bank_a
        bank_b == mlc_positions.bank_b
        num_pairs == Min2(Len(bank_a), Len(bank_b))
        open_mask == [i \in 1..num_pairs |-> bank_b[i] - bank_a[i] > 0]
    IN  IF Len(bank_a) < 2 \/ Len(bank_b) < 2 THEN RZero
        ELSE RMul(calculate_lsv_bank(SubSeq(bank_a, 1, num_pairs), open_mask),
                  calculate_lsv_bank(SubSeq(bank_b, 1, num_pairs), open_mask))

\* calculate_leaf_travel / get_max_leaf_travel take num_pairs from the two
\* bank_a lists and then index both bank_b lists with it
leaf_travel_raises(prev_positions, curr_positions) ==
    LET num_pairs == Min2(Len(prev_positions.bank_a), Len(curr_positions.bank_a))
    IN  /\ num_pairs > 0
        /\ \/ Len(curr_positions.bank_b) < num_pairs
           \/ Len(prev_positions.bank_b) < num_pairs

calculate_leaf_travel(prev_positions, curr_positions) ==
    LET num_pairs == Min2(Len(prev_positions.bank_a), Len(curr_positions.bank_a))
    IN  IF Len(prev_positions.bank_a) = 0 \/ Len(curr_positions.bank_a) = 0 THEN 0
        ELSE SeqSum([i \in 1..num_pairs |->
                Abs(curr_positions.bank_a[i] - prev_positions.bank_a[i])
                + Abs(curr_positions.bank_b[i] - prev_positions.bank_b[i])])

get_max_leaf_travel(prev_positions, curr_positions) ==
    LET num_pairs == Min2(Len(prev_positions.bank_a), Len(curr_positions.bank_a))
    IN  IF Len(prev_positions.bank_a) = 0 \/ Len(curr_positions.bank_a) = 0 THEN 0
        ELSE SeqMax(<<0>> \o [i \in 1..num_pairs |->
                Max2(Abs(curr_positions.bank_a[i] - prev_positions.bank_a[i]),
                     Abs(curr_positions.bank_b[i] - prev_positions.bank_b[i]))])

\* calculate_control_point_metrics: previous_cp is <<>> for the first point
calculate_control_point_metrics_raises(current_cp, previous_cp) ==
    /\ ~IsNone(previous_cp)
    /\ leaf_travel_raises(previous_cp[1].mlc_positions, current_cp.mlc_positions)

calculate_control_point_metrics(current_cp, previous_cp, leaf_widths) ==
    LET aperture_area == calculate_aperture_area(current_cp.mlc_positions, leaf_widths,
                                                 current_cp.jaw_positions)
        prev_area == IF IsNone(previous_cp) THEN 0
                     ELSE calculate_aperture_area(previous_cp[1].mlc_positions,
                                                  leaf_widths,
                                                  previous_cp[1].jaw_positions)
        meterset_weight ==
            RSub(current_cp.cumulative_meterset_weight,
                 IF IsNone(previous_cp) THEN RZero
                 ELSE previous_cp[1].cumulative_meterset_weight)
    IN  [aperture_lsv |-> calculate_lsv(current_cp.mlc_positions, leaf_widths),
         aperture_aav |-> IF prev_area > 0
                          THEN Rat(Abs(aperture_area - prev_area), prev_area)
                          ELSE RZero,
         aperture_area |-> aperture_area,
         leaf_travel |-> IF IsNone(previous_cp) THEN 0
                         ELSE calculate_leaf_travel(previous_cp[1].mlc_positions,
                                                    current_cp.mlc_positions),
         meterset_weight |-> RMax(RZero, meterset_weight),
         aperture_perimeter |-> calculate_aperture_perimeter(
                                    current_cp.mlc_positions, leaf_widths,
                                    current_cp.jaw_positions),
         small_aperture_flags |-> check_small_apertures(current_cp.mlc_positions)]

-----------------------------------------------------------------------------
(* Delivery-time estimate: metrics.py _estimate_beam_delivery_time         *)

\* DEFAULT_MACHINE_PARAMS: 600 MU/min, 4.8 deg/s, 25 mm/s (= 50 units/s)
DEFAULT_MACHINE_PARAMS ==
    [max_dose_rate |-> RInt(600),
     max_gantry_speed |-> Rat(48, 10),
     max_mlc_speed |-> RInt(50)]

\* the segment time that only counts the dose rate
DoseRateTimeOnly(dose_rate_time, gantry_time, mlc_time) == dose_rate_time

\* segment_time = max(dose_rate_time, gantry_time, mlc_time)
SegmentTime(dose_rate_time, gantry_time, mlc_time) ==
    RMax(RMax(dose_rate_time, gantry_time), mlc_time)

\* the choice that resolves ties the other way round: the MLC first, the dose
\* rate last
MlcFirstLimit(dose_rate_time, gantry_time, mlc_time) ==
    IF RLe(dose_rate_time, mlc_time) /\ RLe(gantry_time, mlc_time)
    THEN "mlcSpeed"
    ELSE IF RLe(dose_rate_time, gantry_time) THEN "gantrySpeed"
    ELSE "doseRate"

\* the if / elif / else that names the largest of three times: the dose rate
\* when it is no smaller than both others, else the gantry when it is no
\* smaller than the MLC, else the MLC
BindingLimit(dose_rate_time, gantry_time, mlc_time) ==
    IF RLe(gantry_time, dose_rate_time) /\ RLe(mlc_time, dose_rate_time)
    THEN "doseRate"
    ELSE IF RLe(mlc_time, gantry_time) THEN "gantrySpeed"
    ELSE "mlcSpeed"

\* the three times of the transition into control point i + 1 (i >= 1)
SegmentTimes(beam, control_point_metrics, machine_params, i) ==
    LET cp == beam.control_points[i + 1]
        prev_cp == beam.control_points[i]
        cpm == control_point_metrics[i + 1]
        beam_mu == PyOr(beam.beam_dose, 100)
        segment_mu == RMul(cpm.meterset_weight, RInt(beam_mu))
        gantry_angle_diff == Abs(cp.gantry_angle - prev_cp.gantry_angle)
        max_leaf_travel == get_max_leaf_travel(prev_cp.mlc_positions, cp.mlc_positions)
    IN  [dose_rate_time |->
             RDiv(segment_mu, RDiv(machine_params.max_dose_rate, RInt(60))),
         gantry_time |->
             IF beam.is_arc
             THEN RDiv(RInt(gantry_angle_diff), machine_params.max_gantry_speed)
             ELSE RZero,
         mlc_time |-> RDiv(RInt(max_leaf_travel), machine_params.max_mlc_speed)]

\* total_time += segment_time, and the same for the total of the limit that
\* binds the segment
AddSegmentTime(acc, segment_time, which) ==
    [total_time |-> RAdd(acc.total_time, segment_time),
     dose_rate_limited_time |->
         IF which = "doseRate" THEN RAdd(acc.dose_rate_limited_time, segment_time)
         ELSE acc.dose_rate_limited_time,
     gantry_limited_time |->
         IF which = "gantrySpeed" THEN RAdd(acc.gantry_limited_time, segment_time)
         ELSE acc.gantry_limited_time,
     mlc_limited_time |->
         IF which = "mlcSpeed" THEN RAdd(acc.mlc_limited_time, segment_time)
         ELSE acc.mlc_limited_time]

\* one pass of the loop body, given the three times t of the transition
AddSegment(acc, t) ==
    AddSegmentTime(acc,
                   SegmentTime(t.dose_rate_time, t.gantry_time, t.mlc_time),
                   BindingLimit(t.dose_rate_time, t.gantry_time, t.mlc_time))

\* the running totals after the first i control-point transitions
RECURSIVE DeliveryLoop(_, _, _, _)
DeliveryLoop(beam, control_point_metrics, machine_params, i) ==
    IF i = 0
    THEN [total_time |-> RZero, dose_rate_limited_time |-> RZero,
          gantry_limited_time |-> RZero, mlc_limited_time |-> RZero]
    ELSE AddSegment(DeliveryLoop(beam, control_point_metrics, machine_params, i - 1),
                    SegmentTimes(beam, control_point_metrics, machine_params, i))

\* total_leaf_travel / total_time / beam.number_of_leaves divides by the leaf
\* count whenever total_time > 0
estimate_beam_delivery_time_raises(beam, control_point_metrics, machine_params) ==
    LET acc == DeliveryLoop(beam, control_point_metrics, machine_params,
                            Max2(0, Len(beam.control_points) - 1))
    IN  RLt(RZero, acc.total_time) /\ beam.number_of_leaves = 0

\* what the estimator returns once the loop has left the totals acc
DeliveryEstimate(beam, control_point_metrics, acc) ==
    LET beam_mu == PyOr(beam.beam_dose, 100)
        total_leaf_travel ==
            SeqSum([i \in 1..Len(control_point_metrics) |->
                       control_point_metrics[i].leaf_travel])
        arc_length == Abs(beam.gantry_angle_end - beam.gantry_angle_start)
    IN  [delivery_time |-> acc.total_time,
         limiting_factor |-> BindingLimit(acc.dose_rate_limited_time,
                                          acc.gantry_limited_time,
                                          acc.mlc_limited_time),
         avg_dose_rate |-> IF RLt(RZero, acc.total_time)
                           THEN RMul(RDiv(RInt(beam_mu), acc.total_time), RInt(60))
                           ELSE RZero,
         avg_mlc_speed |-> IF RLt(RZero, acc.total_time)
                           THEN RDiv(RDiv(RInt(total_leaf_travel), acc.total_time),
                                     RInt(beam.number_of_leaves))
                           ELSE RZero,
         mu_per_degree |-> IF beam.is_arc /\ arc_length > 0
                           THEN Some(Rat(beam_mu, arc_length))
                           ELSE None]

estimate_beam_delivery_time(beam, control_point_metrics, machine_params) ==
    DeliveryEstimate(beam, control_point_metrics,
                     DeliveryLoop(beam, control_point_metrics, machine_params,
                                  Max2(0, Len(beam.control_points) - 1)))

-----------------------------------------------------------------------------
(* Inputs: the plans the metrics are computed for                          *)

\* most control points of a beam
MaxCPs == 3
\* most beams of a multi-beam plan
MaxBeams == 2

Mlc(a, b) == [bank_a |-> a, bank_b |-> b]
Jaw(x1, x2, y1, y2) == [x1 |-> x1, x2 |-> x2, y1 |-> y1, y2 |-> y2]

\* jaws: wide open, and clipping both X and Y
WideJaw == Jaw(-20, 20, -20, 20)
ClipJaw == Jaw(-6, 6, -10, 4)

ControlPoint(gantry, weight, mlc, jaw) ==
    [gantry_angle |-> gantry, cumulative_meterset_weight |-> weight,
     mlc_positions |-> mlc, jaw_positions |-> jaw]

\* the leaf and jaw settings a control point of a geometry beam can have
GeometryChoices ==
    { [mlc |-> Mlc(<<0, 0, 0>>, <<0, 0, 0>>), jaw |-> WideJaw],
      [mlc |-> Mlc(<<-4, -4, -4>>, <<4, 4, 4>>), jaw |-> WideJaw],
      [mlc |-> Mlc(<<-4, -8, 0>>, <<4, 8, 8>>), jaw |-> WideJaw],
      [mlc |-> Mlc(<<-4, -8, 0>>, <<4, 8, 8>>), jaw |-> ClipJaw],
      [mlc |-> Mlc(<<-4, 0, -4>>, <<4, 0, 4>>), jaw |-> ClipJaw] }

\* cumulative meterset weights of an n-point beam: never delivering, linear
\* from 0 to 1, three quarters in the first segment, and going back to 0
WeightProfiles(n) ==
    { [i \in 1..n |-> RZero],
      [i \in 1..n |-> IF n > 1 THEN Rat(i - 1, n - 1) ELSE ROne],
      [i \in 1..n |-> IF i = 1 THEN RZero ELSE IF i = 2 THEN Rat(3, 4) ELSE ROne],
      [i \in 1..n |-> IF i % 2 = 1 THEN RZero ELSE ROne] }

\* all sequences over S of length 0..n
RECURSIVE SeqsUpTo(_, _)
SeqsUpTo(S, n) ==
    IF n = 0 THEN { <<>> }
    ELSE LET shorter == SeqsUpTo(S, n - 1)
         IN  shorter \cup { Append(q, x) : q \in { r \in shorter : Len(r) = n - 1 }, x \in S }

Beam(cps, dose, arc, widths, boundaries, leaves) ==
    [control_points |-> cps,
     number_of_control_points |-> Len(cps),
     final_cumulative_meterset_weight |-> ROne,
     beam_dose |-> dose,
     is_arc |-> arc,
     gantry_angle_start |-> IF Len(cps) > 0 THEN cps[1].gantry_angle ELSE 0,
     gantry_angle_end |-> IF Len(cps) > 0 THEN cps[Len(cps)].gantry_angle ELSE 0,
     mlc_leaf_widths |-> widths,
     mlc_leaf_boundaries |-> boundaries,
     number_of_leaves |-> leaves]

\* beams of a 3-pair MLC with consistent array lengths and any geometry
GeometryBeams ==
    UNION { { Beam([i \in 1..Len(g) |-> ControlPoint(0, w[i], g[i].mlc, g[i].jaw)],
                   Some(100), FALSE, <<10, 10, 10>>, <<>>, 3) :
                w \in WeightProfiles(Len(g)) } :
            g \in SeqsUpTo(GeometryChoices, MaxCPs) }

\* two-control-point beams whose bank arrays, widths, boundaries and leaf
\* count disagree in length
BankLengths == { <<3, 3>>, <<3, 2>>, <<2, 3>>, <<0, 0>> }
ShapeMlc(l) == Mlc([k \in 1..l[1] |-> -4], [k \in 1..l[2] |-> 4])
ShapeBeams ==
    { Beam(<<ControlPoint(0, RZero, ShapeMlc(l1), WideJaw),
             ControlPoint(0, ROne, ShapeMlc(l2), WideJaw)>>,
           dose, FALSE, widths, boundaries, leaves) :
        l1 \in BankLengths, l2 \in BankLengths,
        dose \in { None, Some(100) },
        widths \in { <<>>, <<10, 10>>, <<10, 10, 10>> },
        boundaries \in { <<>>, <<-15, -5, 5, 15>> },
        leaves \in { 0, 2, 3 } }

\* beams of fewer than two control points, with any lengths of the arrays;
\* one of the settings opens a single leaf pair from -10 mm to +10 mm
EdgeBeams ==
    { Beam(cps, dose, FALSE, widths, boundaries, leaves) :
        cps \in { <<>> } \cup
                { <<ControlPoint(0, w, m, WideJaw)>> :
                    w \in { RZero, ROne },
                    m \in { ShapeMlc(l) : l \in BankLengths }
                          \cup { Mlc(<<0, -20, 0>>, <<0, 20, 0>>) } },
        dose \in { None, Some(100) },
        widths \in { <<>>, <<10, 10>>, <<10, 10, 10>> },
        boundaries \in { <<>>, <<-15, -5, 5, 15>> },
        leaves \in { 0, 2, 3 } }

\* beams of the multi-beam plans: different MU (unset, zero, set) and geometry
PlanBeams ==
    { Beam(<<ControlPoint(0, RZero, Mlc(<<-4, -8, 0>>, <<4, 8, 8>>), WideJaw),
             ControlPoint(0, ROne, Mlc(<<0, 0, 0>>, <<0, 0, 0>>), WideJaw)>>,
           dose, FALSE, <<10, 10, 10>>, <<>>, 3) : dose \in { None, Some(0), Some(300) } }
    \cup
    { Beam(<<ControlPoint(0, RZero, Mlc(<<-4, -4, -4>>, <<4, 4, 4>>), WideJaw),
             ControlPoint(0, Rat(3, 4), Mlc(<<-4, -8, 0>>, <<4, 8, 8>>), WideJaw),
             ControlPoint(0, ROne, Mlc(<<-4, 0, -4>>, <<4, 0, 4>>), WideJaw)>>,
           Some(100), FALSE, <<10, 10, 10>>, <<>>, 3) }

\* one control-point transition of a delivery beam: the gantry step in degrees,
\* the meterset step in quarters of the beam, and whether the leaves cross
\* the field.  With 100 MU at 600 MU/min a quarter takes 2.5 s, as 12 degrees
\* do at 4.8 deg/s; crossing 250 mm takes 10 s at 25 mm/s, as 48 degrees do.
DeliverySegments ==
    { [gantry |-> 0, quarters |-> 1, cross |-> FALSE],
      [gantry |-> 48, quarters |-> 1, cross |-> FALSE],
      [gantry |-> -48, quarters |-> 1, cross |-> FALSE],
      [gantry |-> 12, quarters |-> 1, cross |-> FALSE],
      [gantry |-> 0, quarters |-> 0, cross |-> TRUE],
      [gantry |-> 48, quarters |-> 0, cross |-> TRUE] }

NearMlc == Mlc(<<-4, -4, -4>>, <<4, 4, 4>>)
FarMlc == Mlc(<<-504, -4, -4>>, <<-496, 4, 4>>)

\* the control points that start at gantry 180 with no meterset and follow
\* the given transitions
RECURSIVE DeliveryControlPoints(_)
DeliveryControlPoints(segs) ==
    IF segs = <<>>
    THEN <<ControlPoint(180, RZero, NearMlc, WideJaw)>>
    ELSE LET n == Len(segs)
             cps == DeliveryControlPoints(SubSeq(segs, 1, n - 1))
             last == cps[n]
             seg == segs[n]
             quarters == SeqSum([k \in 1..n |-> segs[k].quarters])
         IN  Append(cps,
                    ControlPoint(last.gantry_angle + seg.gantry,
                                 Rat(quarters, 4),
                                 IF seg.cross
                                 THEN (IF last.mlc_positions = NearMlc
                                       THEN FarMlc ELSE NearMlc)
                                 ELSE last.mlc_positions,
                                 WideJaw))

\* beams of 100 MU whose transitions are bound by the dose rate, the gantry
\* or the leaves.  A dynamic beam is an arc; a static one is an arc when its
\* last gantry angle is more than 5 degrees from its first.  With them: a
\* dynamic beam without control point, and arcs from 10 to 200 degrees and
\* from 181 to 179 degrees, with and without MU.
DeliveryBeams ==
    UNION { LET cps == DeliveryControlPoints(segs)
                moved == Abs(cps[Len(cps)].gantry_angle - cps[1].gantry_angle) > 5
            IN  { Beam(cps, Some(100), moved \/ dynamic, <<10, 10, 10>>, <<>>, 3) :
                    dynamic \in BOOLEAN } :
            segs \in SeqsUpTo(DeliverySegments, MaxCPs - 1) }
    \cup { Beam(<<>>, Some(100), TRUE, <<10, 10, 10>>, <<>>, 3) }
    \cup { Beam(<<ControlPoint(ends[1], RZero, NearMlc, WideJaw),
                  ControlPoint(ends[2], ROne, NearMlc, WideJaw)>>,
                dose, TRUE, <<10, 10, 10>>, <<>>, 3) :
              ends \in { <<10, 200>>, <<181, 179>> }, dose \in { None, Some(100) } }

\* the prescription a plan carries: none, or 50 Gy in 25 fractions of 2 Gy
Prescriptions ==
    { [prescribed_dose |-> None, dose_per_fraction |-> None, number_of_fractions |-> None],
      [prescribed_dose |-> Some(50), dose_per_fraction |-> Some(2),
       number_of_fractions |-> Some(25)] }

RTPlan(beams, rx) ==
    [beams |-> beams, prescribed_dose |-> rx.prescribed_dose,
     dose_per_fraction |-> rx.dose_per_fraction,
     number_of_fractions |-> rx.number_of_fractions]

NoPrescription == CHOOSE rx \in Prescriptions : rx.prescribed_dose = None

Plans ==
    { RTPlan(<<bm>>, NoPrescription) :
        bm \in GeometryBeams \cup ShapeBeams \cup EdgeBeams \cup DeliveryBeams }
    \cup { RTPlan(bs, rx) : bs \in SeqsUpTo(PlanBeams, MaxBeams), rx \in Prescriptions }

-----------------------------------------------------------------------------
(* Aperture modulation (PAM): project_point_to_bev, contour_to_bev_polygon, *)
(* get_aperture_polygon, calculate_aperture_modulation                     *)
(*                                                                         *)
(* A polygon of axis-parallel rectangles is kept as the list of those      *)
(* rectangles; leaf rows never overlap, so its area is the sum of theirs.  *)
(* The targets given are contours whose points lie in the plane z = 0 and  *)
(* are the corners of an axis-parallel rectangle in ring order, or too few *)
(* to make a polygon; gantry angles are multiples of 90 degrees, where     *)
(* sin and cos are -1, 0 or 1.                                             *)

Sin90(deg) == IF deg % 360 = 90 THEN 1 ELSE IF deg % 360 = 270 THEN -1 ELSE 0
Cos90(deg) == IF deg % 360 = 0 THEN 1 ELSE IF deg % 360 = 180 THEN -1 ELSE 0

\* (x_bev, y_bev) = (z sin(gantry) + x cos(gantry), y)
project_point_to_bev(point_3d, gantry_angle_deg) ==
    <<point_3d[3] * Sin90(gantry_angle_deg) + point_3d[1] * Cos90(gantry_angle_deg),
      point_3d[2]>>

\* Structure.get_all_points: the points of all contours in one list
RECURSIVE get_all_points(_)
get_all_points(contours) ==
    IF contours = <<>> THEN <<>>
    ELSE contours[1].points \o get_all_points(Tail(contours))

\* twice the signed area of the ring through the points (shoelace formula)
RECURSIVE Shoelace(_, _)
Shoelace(pts, i) ==
    IF i = 0 THEN 0
    ELSE LET p == pts[i]
             q == pts[(i % Len(pts)) + 1]
         IN  (p[1] * q[2] - q[1] * p[2]) + Shoelace(pts, i - 1)

Rect(x1, x2, y1, y2) == [x1 |-> x1, x2 |-> x2, y1 |-> y1, y2 |-> y2]
RectArea(r) == (r.x2 - r.x1) * (r.y2 - r.y1)

\* the smallest and largest of the k-th coordinates
CoordMin(pts, k) == CHOOSE v \in { pts[i][k] : i \in 1..Len(pts) } :
                        \A i \in 1..Len(pts) : v <= pts[i][k]
CoordMax(pts, k) == CHOOSE v \in { pts[i][k] : i \in 1..Len(pts) } :
                        \A i \in 1..Len(pts) : v >= pts[i][k]

\* None for fewer than 3 points or an area not above 1e-6, else the polygon
contour_to_bev_polygon(contour_points_3d, gantry_angle_deg) ==
    LET bev_points == [i \in 1..Len(contour_points_3d) |->
                          project_point_to_bev(contour_points_3d[i], gantry_angle_deg)]
    IN  IF Len(contour_points_3d) < 3 THEN None
        ELSE IF Abs(Shoelace(bev_points, Len(bev_points))) = 0 THEN None
        ELSE Some([rects |-> <<Rect(CoordMin(bev_points, 1), CoordMax(bev_points, 1),
                                    CoordMin(bev_points, 2), CoordMax(bev_points, 2))>>,
                   area |-> Half(Abs(Shoelace(bev_points, Len(bev_points))))])

\* the rectangle leaf pair k adds to the aperture, None when it adds none
LeafRect(mlc_positions, jaw_positions, leaf_boundaries, k) ==
    LET y_lower == leaf_boundaries[k]
        y_upper == leaf_boundaries[k + 1]
        y_lower_clipped == Max2(y_lower, jaw_positions.y1)
        y_upper_clipped == Min2(y_upper, jaw_positions.y2)
        x_left_clipped == Max2(mlc_positions.bank_a[k], jaw_positions.x1)
        x_right_clipped == Min2(mlc_positions.bank_b[k], jaw_positions.x2)
    IN  IF y_upper < jaw_positions.y1 \/ y_lower > jaw_positions.y2 THEN None
        ELSE IF x_left_clipped < x_right_clipped /\ y_lower_clipped < y_upper_clipped
             THEN Some(Rect(x_left_clipped, x_right_clipped,
                            y_lower_clipped, y_upper_clipped))
        ELSE None

\* aperture_rects after the first k leaf pairs
RECURSIVE ApertureRects(_, _, _, _)
ApertureRects(mlc_positions, jaw_positions, leaf_boundaries, k) ==
    IF k <= 0 THEN <<>>
    ELSE ApertureRects(mlc_positions, jaw_positions, leaf_boundaries, k - 1)
         \o LeafRect(mlc_positions, jaw_positions, leaf_boundaries, k)

PamPairs(mlc_positions, leaf_boundaries) ==
    Min2(Min2(Len(mlc_positions.bank_a), Len(mlc_positions.bank_b)),
         Len(leaf_boundaries) - 1)

\* two rectangles of neighbouring rows share a stretch of their common edge
SharesEdge(r, q) ==
    /\ r.y2 = q.y1
    /\ Max2(r.x1, q.x1) < Min2(r.x2, q.x2)

\* unary_union of the rows' rectangles is one Polygon, not a MultiPolygon:
\* every rectangle shares an edge with the one of the row before
UnionIsPolygon(rects) ==
    \A i \in 1..(Len(rects) - 1) : SharesEdge(rects[i], rects[i + 1])

get_aperture_polygon(mlc_positions, jaw_positions, leaf_boundaries) ==
    LET aperture_rects ==
            ApertureRects(mlc_positions, jaw_positions, leaf_boundaries,
                          PamPairs(mlc_positions, leaf_boundaries))
    IN  IF aperture_rects = <<>> THEN None
        ELSE IF Len(aperture_rects) = 1 \/ UnionIsPolygon(aperture_rects)
             THEN Some([rects |-> aperture_rects,
                        area |-> SeqSum([i \in 1..Len(aperture_rects) |->
                                            RectArea(aperture_rects[i])])])
        ELSE None

\* area of the intersection of two rectangles
RectIntersection(r, q) ==
    Max2(0, Min2(r.x2, q.x2) - Max2(r.x1, q.x1))
    * Max2(0, Min2(r.y2, q.y2) - Max2(r.y1, q.y1))

\* area of target /\ the rectangles (the target is one rectangle)
IntersectionArea(target_rects, rects) ==
    SeqSum([i \in 1..Len(rects) |-> RectIntersection(target_rects[1], rects[i])])

\* max(0.0, min(1.0, 1 - unblocked_area / total_area))
calculate_aperture_modulation(target_polygon, aperture_polygon) ==
    LET unblocked_area == IntersectionArea(target_polygon.rects, aperture_polygon.rects)
        total_area == target_polygon.area
        am == IF total_area > 0 THEN RSub(ROne, Rat(unblocked_area, total_area)) ELSE ROne
    IN  IF target_polygon.area <= 0 THEN RZero
        ELSE IF aperture_polygon.area <= 0 THEN ROne
        ELSE RMax(RZero, RMin(ROne, am))

\* the contour through the corners of [x1, x2] x [y1, y2] in the plane z = 0
RectContour(x1, x2, y1, y2) ==
    [points |-> <<<<x1, y1, 0>>, <<x2, y1, 0>>, <<x2, y2, 0>>, <<x1, y2, 0>>>>]

Structure(contours) == [contours |-> contours]

\* targets: within the middle leaf row, within the first row, wider than any
\* aperture, beside every aperture, across all rows (given as two contours of
\* two points each), and structures without a polygon
PamStructures ==
    { Some(Structure(<<RectContour(-2, 2, -4, 4)>>)),
      Some(Structure(<<RectContour(-2, 2, -14, -6)>>)),
      Some(Structure(<<RectContour(-10, 10, -15, 15)>>)),
      Some(Structure(<<RectContour(12, 16, -4, 4)>>)),
      Some(Structure(<<[points |-> <<<<-3, -12, 0>>, <<3, -12, 0>>>>],
                       [points |-> <<<<3, 12, 0>>, <<-3, 12, 0>>>>]>>)),
      Some(Structure(<<[points |-> <<<<-2, -4, 0>>, <<2, 4, 0>>>>]>>)),
      Some(Structure(<<>>)),
      None }

\* leaf settings of the PAM control points: closed, uniform, staggered, the
\* middle pair closed, neighbouring pairs whose openings do not overlap, and
\* banks of different lengths
PamMlcs ==
    { Mlc(<<0, 0, 0>>, <<0, 0, 0>>),
      Mlc(<<-4, -4, -4>>, <<4, 4, 4>>),
      Mlc(<<-4, -8, 0>>, <<4, 8, 8>>),
      Mlc(<<-4, 0, -4>>, <<4, 0, 4>>),
      Mlc(<<-8, 2, -8>>, <<-2, 8, -2>>),
      Mlc(<<-4, -4, -4>>, <<4, 4>>) }

PamGantryAngles == { 0, 90, 180 }

PamBeams ==
    { Beam(<<ControlPoint(g, ROne, m, jw)>>, Some(100), FALSE, <<10, 10, 10>>, <<>>, 3) :
        g \in PamGantryAngles, m \in PamMlcs, jw \in { WideJaw, ClipJaw } }

\* calculate_pam_control_point(structure, beam, cp_index) as a function of its
\* arguments: None, or the aperture modulation of that control point
calculate_pam_control_point(target_structure, beam, cp_index) ==
    IF \/ target_structure = None
       \/ Len(target_structure[1].contours) = 0
       \/ cp_index < 0
       \/ cp_index >= Len(beam.control_points)
    THEN None
    ELSE
      LET cp == beam.control_points[cp_index + 1]
          all_contour_points == get_all_points(target_structure[1].contours)
          target == contour_to_bev_polygon(all_contour_points, cp.gantry_angle)
          aperture == get_aperture_polygon(cp.mlc_positions, cp.jaw_positions,
                                           get_effective_leaf_boundaries(beam))
      IN  IF Len(all_contour_points) < 3 THEN None
          ELSE IF target = None THEN None
          ELSE IF aperture = None THEN Some(ROne)
          ELSE Some(calculate_aperture_modulation(target[1], aperture[1]))

\* the 1e-6 below which a total weight counts as zero
WeightEpsilon == Rat(1, 1000000)

\* max(0.0, min(1.0, x))
Clamp01(x) == RMax(RZero, RMin(ROne, x))

\* total_weighted_am and total_mu of calculate_pam_beam after control points
\* 0 .. i - 1
RECURSIVE PamBeamLoop(_, _, _)
PamBeamLoop(target_structure, beam, i) ==
    IF i = 0 THEN [total_weighted_am |-> RZero, total_mu |-> RZero]
    ELSE
      LET acc == PamBeamLoop(target_structure, beam, i - 1)
          cps == beam.control_points
          am == calculate_pam_control_point(target_structure, beam, i - 1)
          delta_mu == IF i = 1 THEN cps[1].cumulative_meterset_weight
                      ELSE RSub(cps[i].cumulative_meterset_weight,
                                cps[i - 1].cumulative_meterset_weight)
      IN  IF am = None THEN acc
          ELSE [total_weighted_am |-> RAdd(acc.total_weighted_am, RMul(am[1], delta_mu)),
                total_mu |-> RAdd(acc.total_mu, delta_mu)]

\* the BAM that counts a control point without an AM as fully blocked
PamBeamBlockedWhenUndefined(target_structure, beam) ==
    LET cps == beam.control_points
        weights == [i \in 1..Len(cps) |->
                       IF i = 1 THEN cps[1].cumulative_meterset_weight
                       ELSE RSub(cps[i].cumulative_meterset_weight,
                                 cps[i - 1].cumulative_meterset_weight)]
        ams == [i \in 1..Len(cps) |->
                   LET am == calculate_pam_control_point(target_structure, beam, i - 1)
                   IN  IF am = None THEN ROne ELSE am[1]]
    IN  IF target_structure = None \/ Len(cps) < 2 THEN None
        ELSE IF RLt(WeightEpsilon, RSeqSum(weights))
             THEN Some(Clamp01(RDiv(RDot(ams, weights), RSeqSum(weights))))
             ELSE None

\* calculate_pam_beam(structure, beam): the BAM of the beam, or None
calculate_pam_beam(target_structure, beam) ==
    IF target_structure = None \/ Len(beam.control_points) < 2 THEN None
    ELSE LET acc == PamBeamLoop(target_structure, beam, Len(beam.control_points))
         IN  IF RLt(WeightEpsilon, acc.total_mu)
             THEN Some(Clamp01(RDiv(acc.total_weighted_am, acc.total_mu)))
             ELSE None

\* total_weighted_pam and total_mu of calculate_pam_plan after the first i beams
RECURSIVE PamPlanLoop(_, _, _)
PamPlanLoop(rtplan, target_structure, i) ==
    IF i = 0 THEN [total_weighted_pam |-> RZero, total_mu |-> RZero]
    ELSE
      LET acc == PamPlanLoop(rtplan, target_structure, i - 1)
          beam == rtplan.beams[i]
          bam == calculate_pam_beam(target_structure, beam)
          beam_mu == beam.final_cumulative_meterset_weight
      IN  IF bam = None THEN acc
          ELSE [total_weighted_pam |-> RAdd(acc.total_weighted_pam, RMul(bam[1], beam_mu)),
                total_mu |-> RAdd(acc.total_mu, beam_mu)]

\* calculate_pam_plan(rtplan, structure): the PAM of the plan, or None
calculate_pam_plan(rtplan, target_structure) ==
    IF Len(rtplan.beams) = 0 \/ target_structure = None THEN None
    ELSE LET acc == PamPlanLoop(rtplan, target_structure, Len(rtplan.beams))
         IN  IF RLt(WeightEpsilon, acc.total_mu)
             THEN Some(Clamp01(RDiv(acc.total_weighted_pam, acc.total_mu)))
             ELSE None

\* beams of the plans that come with a target: fully open, fully closed, the
\* gantry turning to 90 degrees (where a target in the plane z = 0 projects to a
\* line) with the leaves closing at the end, half of the target covered and
\* then closed with the first control point already at weight 1/2, no meterset
\* at all, and a single control point
BamBeams ==
    { Beam(<<ControlPoint(0, RZero, Mlc(<<-4, -4, -4>>, <<4, 4, 4>>), WideJaw),
             ControlPoint(0, ROne, Mlc(<<-4, -4, -4>>, <<4, 4, 4>>), WideJaw)>>,
           Some(100), FALSE, <<10, 10, 10>>, <<>>, 3),
      Beam(<<ControlPoint(0, RZero, Mlc(<<0, 0, 0>>, <<0, 0, 0>>), WideJaw),
             ControlPoint(0, ROne, Mlc(<<0, 0, 0>>, <<0, 0, 0>>), WideJaw)>>,
           Some(300), FALSE, <<10, 10, 10>>, <<>>, 3),
      Beam(<<ControlPoint(0, Rat(1, 4), Mlc(<<-4, -4, -4>>, <<4, 4, 4>>), WideJaw),
             ControlPoint(90, Rat(3, 4), Mlc(<<-4, -4, -4>>, <<4, 4, 4>>), WideJaw),
             ControlPoint(0, ROne, Mlc(<<0, 0, 0>>, <<0, 0, 0>>), WideJaw)>>,
           None, FALSE, <<10, 10, 10>>, <<>>, 3),
      Beam(<<ControlPoint(0, Rat(1, 2), Mlc(<<0, 0, 0>>, <<4, 4, 4>>), WideJaw),
             ControlPoint(0, ROne, Mlc(<<0, 0, 0>>, <<0, 0, 0>>), WideJaw)>>,
           Some(100), FALSE, <<10, 10, 10>>, <<>>, 3),
      Beam(<<ControlPoint(0, RZero, Mlc(<<-4, -4, -4>>, <<4, 4, 4>>), WideJaw),
             ControlPoint(0, RZero, Mlc(<<0, 0, 0>>, <<4, 4, 4>>), WideJaw)>>,
           Some(100), FALSE, <<10, 10, 10>>, <<>>, 3),
      Beam(<<ControlPoint(0, ROne, Mlc(<<-4, -4, -4>>, <<4, 4, 4>>), WideJaw)>>,
           Some(100), FALSE, <<10, 10, 10>>, <<>>, 3) }

\* the targets of those plans: within the middle leaf row, wider than any
\* aperture, and a contour of two points
TargetStructures ==
    { Some(Structure(<<RectContour(-2, 2, -4, 4)>>)),
      Some(Structure(<<RectContour(-10, 10, -15, 15)>>)),
      Some(Structure(<<[points |-> <<<<-2, -4, 0>>, <<2, 4, 0>>>>]>>)) }

\* what calculate_plan_metrics is called with: a plan alone, or a plan and a
\* target structure
PlanInputs ==
    { [plan |-> pl, structure |-> None] : pl \in Plans }
    \cup { [plan |-> RTPlan(bs, NoPrescription), structure |-> st] :
              bs \in SeqsUpTo(BamBeams, MaxBeams), st \in TargetStructures }

-----------------------------------------------------------------------------
(* State: one run of calculate_plan_metrics(plan, structure = structure),  *)
(* followed by calculate_pam_plan(plan, structure)                         *)

VARIABLES
    plan,                     \* the RTPlan given
    structure,                \* the target Structure given, or None
    pc,                       \* where the computation stands
    b,                        \* number of the beam being computed (0: none yet)
    control_point_metrics,    \* per-CP metrics of the current beam
    plan_min_gap,             \* pass 1 result, <<>> before pass 1
    ca_areas,                 \* per-CA lists of pass 2
    ca_lsvs,
    ca_lts,
    ca_delta_mu,
    per_leaf_max_contrib,     \* running per-leaf maximum for the union aperture
    total_active_leaf_travel,
    ca_active_leaf_count,
    beam_metrics,             \* BeamMetrics of the beams finished so far
    plan_metrics,             \* <<>> until calculate_plan_metrics returns
    raised,                   \* "none", or the exception that ended the run
    pam_plan_result,          \* <<>> until calculate_pam_plan(plan, structure) returns
    pam_pc,                   \* where calculate_pam_control_point stands
    pam_structure,            \* its arguments: structure, beam, cp_index
    pam_beam,
    pam_cp_index,
    target_poly,              \* its locals
    aperture_poly,
    pam_result,               \* <<>> until it returns, then <<value returned>>
    fn_call,                  \* a geometry function called on its own: name and arguments
    fn_result                 \* <<>> until it returns, then <<value returned>>

vars == <<plan, pc, b, control_point_metrics, plan_min_gap, ca_areas, ca_lsvs, ca_lts,
          ca_delta_mu, per_leaf_max_contrib, total_active_leaf_travel,
          ca_active_leaf_count, beam_metrics, plan_metrics, raised,
          pam_pc, pam_structure, pam_beam, pam_cp_index, target_poly, aperture_poly,
          pam_result, structure, pam_plan_result, fn_call, fn_result>>

pam_vars == <<pam_pc, pam_structure, pam_beam, pam_cp_index, target_poly, aperture_poly,
              pam_result>>

metrics_vars == <<plan, pc, b, control_point_metrics, plan_min_gap, ca_areas, ca_lsvs,
                  ca_lts, ca_delta_mu, per_leaf_max_contrib, total_active_leaf_travel,
                  ca_active_leaf_count, beam_metrics, plan_metrics, raised,
                  structure, pam_plan_result>>

fn_vars == <<fn_call, fn_result>>

pass2_vars == <<ca_areas, ca_lsvs, ca_lts, ca_delta_mu, per_leaf_max_contrib,
                total_active_leaf_travel, ca_active_leaf_count>>

\* the beam calculate_beam_metrics is working on
CurBeam == plan.beams[b]

\* n_pairs = beam.number_of_leaves or len(beam.mlc_leaf_widths) or 60
NPairs(beam) ==
    IntOr(beam.number_of_leaves, IntOr(Len(beam.mlc_leaf_widths), DefaultLeafPairs))

NCps(beam) == Len(beam.control_points)
NCa(beam) == Len(beam.control_points) - 1

\* calculate_pam_control_point is not running
PamIdle ==
    /\ pam_pc = "idle"
    /\ pam_structure = None
    /\ pam_beam = None
    /\ pam_cp_index = 0
    /\ target_poly = None
    /\ aperture_poly = None
    /\ pam_result = None

\* no geometry function is called on its own
FnIdle ==
    /\ fn_call = None
    /\ fn_result = None

Init ==
    /\ PamIdle
    /\ FnIdle
    /\ \E input \in PlanInputs : plan = input.plan /\ structure = input.structure
    /\ pam_plan_result = None
    /\ pc = "next_beam"
    /\ b = 0
    /\ control_point_metrics = <<>>
    /\ plan_min_gap = None
    /\ ca_areas = <<>>
    /\ ca_lsvs = <<>>
    /\ ca_lts = <<>>
    /\ ca_delta_mu = <<>>
    /\ per_leaf_max_contrib = <<>>
    /\ total_active_leaf_travel = 0
    /\ ca_active_leaf_count = 0
    /\ beam_metrics = <<>>
    /\ plan_metrics = None
    /\ raised = "none"

\* the exception leaves calculate_beam_metrics and calculate_plan_metrics
Raise(exc) ==
    /\ pc' = "raised"
    /\ raised' = exc

\* calculate_plan_metrics calls calculate_beam_metrics for the next beam
StartBeam ==
    /\ pc = "next_beam"
    /\ b < Len(plan.beams)
    /\ b' = b + 1
    /\ pc' = "cp_metrics"
    /\ control_point_metrics' = <<>>
    /\ plan_min_gap' = None
    /\ ca_areas' = <<>>
    /\ ca_lsvs' = <<>>
    /\ ca_lts' = <<>>
    /\ ca_delta_mu' = <<>>
    /\ per_leaf_max_contrib' = <<>>
    /\ total_active_leaf_travel' = 0
    /\ ca_active_leaf_count' = 0
    /\ UNCHANGED <<pam_vars, fn_vars, structure, pam_plan_result, plan, beam_metrics, plan_metrics, raised>>

\* one iteration of the per-CP loop: calculate_control_point_metrics(cp, prev_cp)
ControlPointMetricsStep ==
    /\ pc = "cp_metrics"
    /\ Len(control_point_metrics) < NCps(CurBeam)
    /\ LET i == Len(control_point_metrics) + 1
           cp == CurBeam.control_points[i]
           prev_cp == IF i > 1 THEN Some(CurBeam.control_points[i - 1]) ELSE None
       IN  IF calculate_control_point_metrics_raises(cp, prev_cp)
           THEN /\ Raise("IndexError")
                /\ UNCHANGED control_point_metrics
           ELSE /\ control_point_metrics' =
                       Append(control_point_metrics,
                              calculate_control_point_metrics(cp, prev_cp,
                                                              CurBeam.mlc_leaf_widths))
                /\ UNCHANGED <<pc, raised>>
    /\ UNCHANGED <<pam_vars, fn_vars, structure, pam_plan_result, plan, b, plan_min_gap, pass2_vars, beam_metrics, plan_metrics>>

\* the gaps pass 1 looks at: every leaf pair k < min(len a, len b, n_pairs) of every CP
AllGaps(beam) ==
    { beam.control_points[i].mlc_positions.bank_b[k]
      - beam.control_points[i].mlc_positions.bank_a[k] :
        <<i, k>> \in { <<i2, k2>> \in (1..NCps(beam)) \X (1..NPairs(beam)) :
                        /\ k2 <= Len(beam.control_points[i2].mlc_positions.bank_a)
                        /\ k2 <= Len(beam.control_points[i2].mlc_positions.bank_b) } }

SetMin(S) == CHOOSE x \in S : \A y \in S : x <= y

\* pass 1: the minimum gap anywhere in the beam, 0 when there is none or it is negative
FindMinGap(beam) ==
    IF AllGaps(beam) = {} THEN 0
    ELSE IF SetMin(AllGaps(beam)) < 0 THEN 0
    ELSE SetMin(AllGaps(beam))

\* pass 1 and the initialisation of the pass 2 accumulators
FindPlanMinGap ==
    /\ pc = "cp_metrics"
    /\ Len(control_point_metrics) = NCps(CurBeam)
    /\ plan_min_gap' = Some(FindMinGap(CurBeam))
    /\ per_leaf_max_contrib' = [k \in 1..NPairs(CurBeam) |-> 0]
    /\ pc' = "pass2"
    /\ UNCHANGED <<pam_vars, fn_vars, structure, pam_plan_result, plan, b, control_point_metrics, ca_areas, ca_lsvs, ca_lts, ca_delta_mu,
                   total_active_leaf_travel, ca_active_leaf_count, beam_metrics,
                   plan_metrics, raised>>

-----------------------------------------------------------------------------
(* Pass 2: one control arc (CA) of calculate_beam_metrics                  *)

\* the midpoint of CA j (1-based: between control points j and j + 1)
CaMidpoint(beam, j) ==
    LET cp1 == beam.control_points[j]
        cp2 == beam.control_points[j + 1]
        a1 == cp1.mlc_positions.bank_a
        b1 == cp1.mlc_positions.bank_b
        a2 == cp2.mlc_positions.bank_a
        b2 == cp2.mlc_positions.bank_b
        n == Min2(Min2(Min2(Len(a1), Len(b1)), Min2(Len(a2), Len(b2))), NPairs(beam))
    IN  [n |-> n,
         mid_a |-> [k \in 1..n |-> Half(a1[k] + a2[k])],
         mid_b |-> [k \in 1..n |-> Half(b1[k] + b2[k])],
         gaps |-> [k \in 1..n |-> Half(b1[k] + b2[k]) - Half(a1[k] + a2[k])],
         mid_jaw_y1 |-> Half(cp1.jaw_positions.y1 + cp2.jaw_positions.y1),
         mid_jaw_y2 |-> Half(cp1.jaw_positions.y2 + cp2.jaw_positions.y2)]

CaActive(beam, j, min_gap) ==
    LET m == CaMidpoint(beam, j)
    IN  determine_active_leaves(m.gaps, get_effective_leaf_boundaries(beam),
                                m.mid_jaw_y1, m.mid_jaw_y2, min_gap)

CaArea(beam, j, min_gap) ==
    LET m == CaMidpoint(beam, j)
    IN  calculate_area_ca(m.mid_a, m.mid_b, get_effective_leaf_boundaries(beam),
                          m.mid_jaw_y1, m.mid_jaw_y2, CaActive(beam, j, min_gap))

\* a leaf pair's contribution gaps[k] * eff_w at the midpoint of CA j
CaContrib(beam, j, k) ==
    LET m == CaMidpoint(beam, j)
        leaf_bounds == get_effective_leaf_boundaries(beam)
    IN  m.gaps[k] * EffWidth(leaf_bounds[k], leaf_bounds[k + 1], m.mid_jaw_y1, m.mid_jaw_y2)

KeepLastContrib(old, contrib) == contrib

\* if contrib > per_leaf_max_contrib[k]: per_leaf_max_contrib[k] = contrib
MaxContrib(old, contrib) == IF contrib > old THEN contrib ELSE old

CaLsv(beam, j, min_gap) ==
    LET m == CaMidpoint(beam, j)
        active == CaActive(beam, j, min_gap)
    IN  RMul(calculate_lsv_bank(m.mid_a, active), calculate_lsv_bank(m.mid_b, active))

\* active leaf travel between the two real control points of CA j
CaLeafTravel(beam, j, min_gap) ==
    LET cp1 == beam.control_points[j]
        cp2 == beam.control_points[j + 1]
        active == CaActive(beam, j, min_gap)
    IN  SeqSum([k \in 1..Len(active) |->
            IF active[k]
            THEN Abs(cp2.mlc_positions.bank_a[k] - cp1.mlc_positions.bank_a[k])
                 + Abs(cp2.mlc_positions.bank_b[k] - cp1.mlc_positions.bank_b[k])
            ELSE 0])

CaActiveCount(beam, j, min_gap) ==
    LET active == CaActive(beam, j, min_gap)
    IN  Cardinality({ k \in 1..Len(active) : active[k] })

\* max(0.0, cp2.cumulative_meterset_weight - cp1.cumulative_meterset_weight)
CaDeltaMu(beam, j) ==
    RMax(RZero, RSub(beam.control_points[j + 1].cumulative_meterset_weight,
                     beam.control_points[j].cumulative_meterset_weight))

\* one iteration of  for j in range(n_ca)
ControlArcStep ==
    /\ pc = "pass2"
    /\ Len(ca_areas) < NCa(CurBeam)
    /\ LET j == Len(ca_areas) + 1
           m == CaMidpoint(CurBeam, j)
           min_gap == plan_min_gap[1]
       IN  IF determine_active_leaves_raises(m.gaps, get_effective_leaf_boundaries(CurBeam))
           THEN /\ Raise("IndexError")
                /\ UNCHANGED pass2_vars
           ELSE /\ ca_areas' = Append(ca_areas, CaArea(CurBeam, j, min_gap))
                /\ per_leaf_max_contrib' =
                       [k \in 1..Len(per_leaf_max_contrib) |->
                           IF k <= m.n /\ CaActive(CurBeam, j, min_gap)[k]
                           THEN MaxContrib(per_leaf_max_contrib[k], CaContrib(CurBeam, j, k))
                           ELSE per_leaf_max_contrib[k]]
                /\ ca_lsvs' = Append(ca_lsvs, CaLsv(CurBeam, j, min_gap))
                /\ ca_lts' = Append(ca_lts, CaLeafTravel(CurBeam, j, min_gap))
                /\ total_active_leaf_travel' =
                       total_active_leaf_travel + CaLeafTravel(CurBeam, j, min_gap)
                /\ ca_active_leaf_count' =
                       ca_active_leaf_count + CaActiveCount(CurBeam, j, min_gap)
                /\ ca_delta_mu' = Append(ca_delta_mu, CaDeltaMu(CurBeam, j))
                /\ UNCHANGED <<pc, raised>>
    /\ UNCHANGED <<pam_vars, fn_vars, structure, pam_plan_result, plan, b, control_point_metrics, plan_min_gap, beam_metrics, plan_metrics>>

-----------------------------------------------------------------------------
(* Secondary per-control-point metrics                                     *)

\* numbers of the form r + ipi / pi (aperture irregularity divides by 4 pi)
PiNum(r, ipi) == [r |-> r, ipi |-> ipi]
PiAdd(x, y) == PiNum(RAdd(x.r, y.r), RAdd(x.ipi, y.ipi))
PiScale(x, q) == PiNum(RMul(x.r, q), RMul(x.ipi, q))

OpenPairs(mlc_positions) ==
    { i \in 1..Min2(Len(mlc_positions.bank_a), Len(mlc_positions.bank_b)) :
        mlc_positions.bank_b[i] - mlc_positions.bank_a[i] > 0 }

RECURSIVE SetSum(_, _)
\* sum of f[i] over the finite set S
SetSum(S, f) ==
    IF S = {} THEN 0
    ELSE LET x == CHOOSE y \in S : TRUE IN f[x] + SetSum(S \ {x}, f)

calculate_leaf_gap(mlc_positions) ==
    LET open == OpenPairs(mlc_positions)
        total_gap == SetSum(open, [i \in open |->
                         mlc_positions.bank_b[i] - mlc_positions.bank_a[i]])
    IN  IF Len(mlc_positions.bank_a) = 0 \/ Len(mlc_positions.bank_b) = 0 THEN RZero
        ELSE IF Cardinality(open) > 0 THEN Rat(total_gap, Cardinality(open))
        ELSE RZero

\* |(bank_a + bank_b) / 2 - 0| summed over the open pairs, twice that sum here
calculate_mad(mlc_positions) ==
    LET open == OpenPairs(mlc_positions)
        twice == SetSum(open, [i \in open |->
                     Abs(mlc_positions.bank_a[i] + mlc_positions.bank_b[i])])
    IN  IF Len(mlc_positions.bank_a) = 0 \/ Len(mlc_positions.bank_b) = 0 THEN RZero
        ELSE IF Cardinality(open) > 0 THEN Rat(twice, 2 * Cardinality(open))
        ELSE RZero

calculate_efs(area, perimeter) ==
    IF perimeter <= 0 THEN RZero ELSE Rat(4 * area, perimeter)

\* (width * height) / 100, mm^2 to cm^2
calculate_jaw_area(jaw_positions) ==
    Rat((jaw_positions.x2 - jaw_positions.x1) * (jaw_positions.y2 - jaw_positions.y1), 100)

\* the exposure of leaf pair i against its neighbour i + 1 (times 4), and its area
TgExposure4(mlc_positions, i) ==
    LET a == mlc_positions.bank_a
        bb == mlc_positions.bank_b
        gap_current == bb[i] - a[i]
        gap_next == bb[i + 1] - a[i + 1]
    IN  IF gap_current <= 0 THEN 0
        ELSE IF gap_next <= 0 THEN 2 * gap_current
        ELSE Abs(a[i + 1] - a[i]) + Abs(bb[i + 1] - bb[i])

TgArea(mlc_positions, leaf_widths, i) ==
    LET gap_current == mlc_positions.bank_b[i] - mlc_positions.bank_a[i]
    IN  IF gap_current > 0 THEN gap_current * WidthAt(leaf_widths, i) ELSE 0

calculate_tongue_and_groove(mlc_positions, leaf_widths) ==
    LET num_pairs == Min2(Len(mlc_positions.bank_a), Len(mlc_positions.bank_b))
        tg4 == SeqSum([i \in 1..(num_pairs - 1) |-> TgExposure4(mlc_positions, i)])
        total_area == SeqSum([i \in 1..(num_pairs - 1) |->
                                 TgArea(mlc_positions, leaf_widths, i)])
    IN  IF Len(mlc_positions.bank_a) < 2 \/ Len(mlc_positions.bank_b) < 2 THEN RZero
        ELSE IF total_area > 0 THEN Rat(tg4, 4 * total_area)
        ELSE RZero

\* perimeter^2 / (4 pi area), 1.0 when area <= 0
calculate_aperture_irregularity(mlc_positions, leaf_widths, jaw_positions) ==
    LET area == calculate_aperture_area(mlc_positions, leaf_widths, jaw_positions)
        perimeter == calculate_aperture_perimeter(mlc_positions, leaf_widths, jaw_positions)
    IN  IF area <= 0 THEN PiNum(ROne, RZero)
        ELSE PiNum(RZero, Rat(perimeter * perimeter, 4 * area))

\* the accumulators of the per-CP loop of calculate_beam_metrics after i points
RECURSIVE SecondaryLoop(_, _, _)
SecondaryLoop(beam, cpms, i) ==
    IF i = 0
    THEN [total_area |-> 0, total_perimeter |-> 0, area_count |-> 0, sas5_count |-> 0,
          sas10_count |-> 0, small_field_count |-> 0, total_jaw_area |-> RZero,
          weighted_pi |-> PiNum(RZero, RZero), weighted_em |-> RZero,
          weighted_lg |-> RZero, weighted_mad |-> RZero, weighted_efs |-> RZero,
          weighted_tg |-> RZero, total_meterset_weight |-> RZero]
    ELSE
      LET acc == SecondaryLoop(beam, cpms, i - 1)
          cp == beam.control_points[i]
          cpm == cpms[i]
          weight == cpm.meterset_weight
          perimeter == cpm.aperture_perimeter
          pos == RLt(RZero, weight)
          cp_em == IF cpm.aperture_area > 0 THEN Rat(perimeter, 2 * cpm.aperture_area)
                   ELSE RZero
          W(acc_v, v) == IF pos THEN RAdd(acc_v, RMul(v, weight)) ELSE acc_v
      IN  [total_area |-> acc.total_area
                          + (IF cpm.aperture_area > 0 THEN cpm.aperture_area ELSE 0),
           total_perimeter |-> acc.total_perimeter
                               + (IF cpm.aperture_area > 0 THEN perimeter ELSE 0),
           area_count |-> acc.area_count + (IF cpm.aperture_area > 0 THEN 1 ELSE 0),
           \* 400 mm^2 is 1600 units^2
           small_field_count |-> acc.small_field_count
               + (IF cpm.aperture_area > 0 /\ cpm.aperture_area < 4 * 400 THEN 1 ELSE 0),
           sas5_count |-> acc.sas5_count
                          + (IF cpm.small_aperture_flags.below_5mm THEN 1 ELSE 0),
           sas10_count |-> acc.sas10_count
                           + (IF cpm.small_aperture_flags.below_10mm THEN 1 ELSE 0),
           total_jaw_area |-> RAdd(acc.total_jaw_area, calculate_jaw_area(cp.jaw_positions)),
           weighted_pi |-> IF pos
                           THEN PiAdd(acc.weighted_pi,
                                      PiScale(calculate_aperture_irregularity(
                                                  cp.mlc_positions, beam.mlc_leaf_widths,
                                                  cp.jaw_positions), weight))
                           ELSE acc.weighted_pi,
           weighted_em |-> W(acc.weighted_em, cp_em),
           weighted_lg |-> W(acc.weighted_lg, calculate_leaf_gap(cp.mlc_positions)),
           weighted_mad |-> W(acc.weighted_mad, calculate_mad(cp.mlc_positions)),
           weighted_efs |-> W(acc.weighted_efs,
                              calculate_efs(cpm.aperture_area, perimeter)),
           weighted_tg |-> W(acc.weighted_tg,
                             calculate_tongue_and_groove(cp.mlc_positions,
                                                         beam.mlc_leaf_widths)),
           total_meterset_weight |-> RAdd(acc.total_meterset_weight, weight)]

-----------------------------------------------------------------------------
(* Beam aggregation: calculate_beam_metrics after the control-arc loop     *)

\* the A_max that takes the largest single leaf instead of the envelope
LargestLeafContrib(contribs) ==
    IF contribs = <<>> THEN 0
    ELSE CHOOSE x \in { contribs[k] : k \in 1..Len(contribs) } :
             \A k \in 1..Len(contribs) : contribs[k] <= x

\* a_max_union = sum(per_leaf_max_contrib)
UnionAperture(contribs) == SeqSum(contribs)

\* a / a_max_union if a_max_union > 0 else 0.0
CaAav(a, a_max_union) == IF a_max_union > 0 THEN Rat(a, a_max_union) ELSE RZero

CaAavs(areas, a_max_union) == [j \in 1..Len(areas) |-> CaAav(areas[j], a_max_union)]

CaMcss(lsvs, aavs) == [j \in 1..Len(lsvs) |-> RMul(lsvs[j], aavs[j])]

\* Eq. (2): sum(x[i] * delta_mu[i]) / total_delta_mu
WeightedCa(xs, delta_mu) == RDiv(RDot(xs, delta_mu), RSeqSum(delta_mu))

\* the mean with 1.0 as its fallback
MeanCaOrOne(xs, n_ca) == IF n_ca > 0 THEN RDiv(RSeqSum(xs), RInt(n_ca)) ELSE ROne

\* sum(xs) / n_ca if n_ca > 0 else 0.0
MeanCa(xs, n_ca) == IF n_ca > 0 THEN RDiv(RSeqSum(xs), RInt(n_ca)) ELSE RZero

\* x / total_meterset_weight if total_meterset_weight > 0 else dflt
OverWeight(x, total_meterset_weight, dflt) ==
    IF RLt(RZero, total_meterset_weight) THEN RDiv(x, total_meterset_weight) ELSE dflt

\* an arc length computed for every beam of more than one control point,
\* whether or not it is an arc
ArcLengthOfAnyBeam(beam) ==
    IF Len(beam.control_points) > 1
    THEN LET d == Abs(beam.gantry_angle_end - beam.gantry_angle_start)
         IN  Some(IF d > 180 THEN 360 - d ELSE d)
    ELSE None

\* arc_length of calculate_beam_metrics: None unless an arc with > 1 points
BeamArcLength(beam) ==
    IF beam.is_arc /\ Len(beam.control_points) > 1
    THEN LET d == Abs(beam.gantry_angle_end - beam.gantry_angle_start)
         IN  Some(IF d > 180 THEN 360 - d ELSE d)
    ELSE None

\* Python truthiness of an Optional number
Truthy(m) == m # <<>> /\ m[1] # 0

\* mean absolute difference of consecutive entries, None when fewer than two
MeanVariation(xs) ==
    IF Len(xs) > 1
    THEN Some(RDiv(RSeqSum([i \in 1..(Len(xs) - 1) |->
                       LET d == RSub(xs[i + 1], xs[i])
                       IN  IF RLt(d, RZero) THEN RSub(RZero, d) ELSE d]),
                   RInt(Len(xs) - 1)))
    ELSE None

\* the segments i = 1 .. len - 1 of an arc whose gantry moves
RECURSIVE MovingSegments(_, _)
MovingSegments(beam, i) ==
    IF i = 0 THEN <<>>
    ELSE LET rest == MovingSegments(beam, i - 1)
             d == Abs(beam.control_points[i + 1].gantry_angle
                      - beam.control_points[i].gantry_angle)
         IN  IF beam.is_arc /\ d > 0 THEN Append(rest, d) ELSE rest

\* MD: sqrt(variance) / avg_weight, kept as the rational under the root
ModulationDegree(cpms) ==
    LET n == Len(cpms)
        ws == [i \in 1..n |-> cpms[i].meterset_weight]
        avg_weight == RDiv(RSeqSum(ws), RInt(n))
        variance == RDiv(RSeqSum([i \in 1..n |->
                            RMul(RSub(ws[i], avg_weight), RSub(ws[i], avg_weight))]),
                         RInt(n))
    IN  IF n > 1 /\ RLt(RZero, avg_weight)
        THEN Some([sqrt_of |-> RDiv(variance, RMul(avg_weight, avg_weight))])
        ELSE None

\* the BeamMetrics built from the accumulators, the secondary-metric totals
\* acc, the delivery estimate est and the beam aperture modulation BAM
BeamMetricsFrom(beam, cpms, areas, lsvs, delta_mu, contribs, active_travel, acc, est, BAM) ==
    LET n_ca == Len(beam.control_points) - 1
        a_max_union == UnionAperture(contribs)
        ca_aavs == CaAavs(areas, a_max_union)
        ca_mcss == CaMcss(lsvs, ca_aavs)
        total_delta_mu == RSeqSum(delta_mu)
        weighted == RLt(RZero, total_delta_mu)
        LSV == IF weighted THEN WeightedCa(lsvs, delta_mu) ELSE MeanCa(lsvs, n_ca)
        AAV == IF weighted THEN WeightedCa(ca_aavs, delta_mu) ELSE MeanCa(ca_aavs, n_ca)
        MCS == IF weighted THEN WeightedCa(ca_mcss, delta_mu) ELSE RMul(LSV, AAV)
        LT == active_travel
        tmw == acc.total_meterset_weight
        total_cps == Len(cpms)
        arc_length == BeamArcLength(beam)
        delivery_time == est.delivery_time
        timed == Truthy(arc_length) /\ RLt(RZero, delivery_time)
        beam_mu == PyOr(beam.beam_dose, 0)
        num_cps == beam.number_of_control_points
        num_leaves == IntOr(beam.number_of_leaves, DefaultLeafPairs)
        avg_segment_time == RDiv(delivery_time, RInt(Len(beam.control_points) - 1))
        varied == Len(beam.control_points) > 1 /\ RLt(RZero, delivery_time)
        segment_dose_rates ==
            [i \in 1..(Len(beam.control_points) - 1) |->
                RMul(RDiv(RMul(cpms[i + 1].meterset_weight, RInt(beam_mu)),
                          avg_segment_time), RInt(60))]
        moving == MovingSegments(beam, Len(beam.control_points) - 1)
        segment_gantry_speeds ==
            [i \in 1..Len(moving) |-> RDiv(RInt(moving[i]), avg_segment_time)]
    IN  [MCS |-> MCS, LSV |-> LSV, AAV |-> AAV,
         MFA |-> IF acc.area_count > 0 THEN Rat(acc.total_area, acc.area_count * 100)
                 ELSE RZero,
         LT |-> LT,
         LTMCS |-> [mcs |-> MCS, lt |-> LT],
         LG |-> OverWeight(acc.weighted_lg, tmw, RZero),
         MAD |-> OverWeight(acc.weighted_mad, tmw, RZero),
         EFS |-> OverWeight(acc.weighted_efs, tmw, RZero),
         psmall |-> IF total_cps > 0 THEN Rat(acc.small_field_count, total_cps) ELSE RZero,
         MUCA |-> IF n_ca > 0 THEN Rat(beam_mu, n_ca) ELSE RZero,
         LTMU |-> IF beam_mu > 0 THEN Rat(LT, beam_mu) ELSE RZero,
         LTNLMU |-> IF num_leaves > 0 /\ beam_mu > 0 THEN Rat(LT, num_leaves * beam_mu)
                    ELSE RZero,
         LNA |-> IF num_leaves > 0 /\ num_cps > 0 THEN Rat(LT, num_leaves * num_cps)
                 ELSE RZero,
         LTAL |-> IF Truthy(arc_length) /\ arc_length[1] > 0
                  THEN Some(Rat(LT, arc_length[1])) ELSE None,
         mDRV |-> IF varied THEN MeanVariation(segment_dose_rates) ELSE None,
         GT |-> arc_length,
         GS |-> IF timed THEN Some(RDiv(RInt(arc_length[1]), delivery_time)) ELSE None,
         mGSV |-> IF varied THEN MeanVariation(segment_gantry_speeds) ELSE None,
         LS |-> est.avg_mlc_speed,
         PA |-> Rat(acc.total_area, 100),
         JA |-> IF acc.area_count > 0
                THEN RDiv(acc.total_jaw_area, RInt(acc.area_count)) ELSE RZero,
         PM |-> IF a_max_union > 0 /\ weighted
                THEN RSub(ROne, RDiv(RDot(delta_mu, [j \in 1..Len(areas) |-> RInt(areas[j])]),
                                     RMul(total_delta_mu, RInt(a_max_union))))
                ELSE RSub(ROne, MCS),
         TG |-> OverWeight(acc.weighted_tg, tmw, RZero),
         MD |-> ModulationDegree(cpms),
         MI |-> IF Len(cpms) > 1 /\ LT > 0 THEN Some(Rat(LT, num_leaves * num_cps))
                ELSE None,
         beam_mu |-> beam_mu,
         arc_length |-> arc_length,
         number_of_control_points |-> beam.number_of_control_points,
         average_gantry_speed |->
             IF timed THEN Some(RDiv(RInt(arc_length[1]), delivery_time)) ELSE None,
         estimated_delivery_time |-> delivery_time,
         MU_per_degree |-> est.mu_per_degree,
         avg_dose_rate |-> est.avg_dose_rate,
         avg_mlc_speed |-> est.avg_mlc_speed,
         limiting_factor |-> est.limiting_factor,
         SAS5 |-> IF total_cps > 0 THEN Rat(acc.sas5_count, total_cps) ELSE RZero,
         SAS10 |-> IF total_cps > 0 THEN Rat(acc.sas10_count, total_cps) ELSE RZero,
         EM |-> OverWeight(acc.weighted_em, tmw, RZero),
         PI |-> IF RLt(RZero, tmw) THEN PiScale(acc.weighted_pi, RDiv(ROne, tmw))
                ELSE PiNum(ROne, RZero),
         BAM |-> BAM]

\* the BeamMetrics that calculate_beam_metrics returns from its accumulators
BeamMetricsOf(beam, cpms, areas, lsvs, delta_mu, contribs, active_travel, machine_params, target_structure) ==
    BeamMetricsFrom(beam, cpms, areas, lsvs, delta_mu, contribs, active_travel,
                    SecondaryLoop(beam, cpms, Len(cpms)),
                    estimate_beam_delivery_time(beam, cpms, machine_params),
                    calculate_pam_beam(target_structure, beam))

\* the rest of calculate_beam_metrics once every control arc is done
AggregateBeam ==
    /\ pc = "pass2"
    /\ Len(ca_areas) >= NCa(CurBeam)
    /\ IF estimate_beam_delivery_time_raises(CurBeam, control_point_metrics,
                                             DEFAULT_MACHINE_PARAMS)
       THEN /\ Raise("ZeroDivisionError")
            /\ UNCHANGED beam_metrics
       ELSE /\ beam_metrics' =
                   Append(beam_metrics,
                          BeamMetricsOf(CurBeam, control_point_metrics, ca_areas, ca_lsvs,
                                        ca_delta_mu, per_leaf_max_contrib,
                                        total_active_leaf_travel, DEFAULT_MACHINE_PARAMS,
                                        structure))
            /\ pc' = "next_beam"
            /\ UNCHANGED raised
    /\ UNCHANGED <<pam_vars, fn_vars, structure, pam_plan_result, plan, b, control_point_metrics, plan_min_gap, pass2_vars, plan_metrics>>

-----------------------------------------------------------------------------
(* Plan aggregation: calculate_plan_metrics                                *)

\* bm.beam_mu or 1
MuOr1(bm) == IntOr(bm.beam_mu, 1)

\* sum(x[i] * mu[i]) / sum(mu) over the beams, x a list of rationals
PlanWeighted(xs, mus) ==
    RDiv(RDot(xs, [i \in 1..Len(mus) |-> RInt(mus[i])]), RInt(SeqSum(mus)))

\* the entries of an Optional list that are not None, in order
RECURSIVE ValidIdx(_, _)
ValidIdx(vals, i) ==
    IF i = 0 THEN <<>>
    ELSE IF vals[i] # None THEN Append(ValidIdx(vals, i - 1), i)
    ELSE ValidIdx(vals, i - 1)

\* the aggregate that takes the value of the first beam that has one
FirstValidValue(vals, mus) ==
    LET valid == ValidIdx(vals, Len(vals))
    IN  IF valid = <<>> THEN None ELSE Some(vals[valid[1]][1])

\* weighted_avg(attr): None when every beam has None, otherwise the average of
\* the present values weighted by their beams' MU
weighted_avg(vals, mus) ==
    LET valid == ValidIdx(vals, Len(vals))
    IN  IF valid = <<>> THEN None
        ELSE Some(PlanWeighted([i \in 1..Len(valid) |-> vals[valid[i]][1]],
                               [i \in 1..Len(valid) |-> mus[valid[i]]]))

\* x, zero or not
SomeValue(x) == Some(x)

\* x if x > 0 else None
PositiveOrNone(x) == IF RLt(RZero, x) THEN Some(x) ELSE None

PlanMetricsOf(pl, bms) ==
    LET n == Len(bms)
        n_beams == IntOr(n, 1)
        mus == [i \in 1..n |-> MuOr1(bms[i])]
        total_mu == SeqSum([i \in 1..n |-> bms[i].beam_mu])
        weight_mu == SeqSum(mus)
        weighted == weight_mu > 0
        Col(f(_)) == [i \in 1..n |-> f(bms[i])]
        Mean(xs) == RDiv(RSeqSum(xs), RInt(n_beams))
        Avg(f(_)) == IF weighted THEN weighted_avg(Col(f), mus) ELSE None
        fLSV(bm) == bm.LSV
        fAAV(bm) == bm.AAV
        fMCS(bm) == bm.MCS
        fMFA(bm) == bm.MFA
        fLG(bm) == Some(bm.LG)
        fMAD(bm) == Some(bm.MAD)
        fEFS(bm) == Some(bm.EFS)
        fpsmall(bm) == Some(bm.psmall)
        fMUCA(bm) == Some(bm.MUCA)
        fLTNLMU(bm) == Some(bm.LTNLMU)
        fLNA(bm) == Some(bm.LNA)
        fLTAL(bm) == bm.LTAL
        fmDRV(bm) == bm.mDRV
        fGS(bm) == bm.GS
        fmGSV(bm) == bm.mGSV
        fLS(bm) == Some(bm.LS)
        fPM(bm) == Some(bm.PM)
        fTG(bm) == Some(bm.TG)
        fMI(bm) == bm.MI
        fSAS5(bm) == Some(bm.SAS5)
        fSAS10(bm) == Some(bm.SAS10)
        fEM(bm) == Some(bm.EM)
        fBAM(bm) == bm.BAM
        fPIr(bm) == Some(bm.PI.r)
        fPIipi(bm) == Some(bm.PI.ipi)
        fTime(bm) == bm.estimated_delivery_time
        fPA(bm) == bm.PA
        fJA(bm) == bm.JA
        MCS == IF weighted THEN PlanWeighted(Col(fMCS), mus) ELSE RZero
        total_lt == SeqSum([i \in 1..n |-> bms[i].LT])
        total_gt == SeqSum([i \in 1..n |-> PyOr(bms[i].GT, 0)])
        total_ja == IF n > 0 THEN Mean(Col(fJA)) ELSE RZero
        md_valid == ValidIdx([i \in 1..n |-> bms[i].MD], n)
    IN  [MCS |-> MCS,
         LSV |-> IF weighted THEN PlanWeighted(Col(fLSV), mus) ELSE Mean(Col(fLSV)),
         AAV |-> IF weighted THEN PlanWeighted(Col(fAAV), mus) ELSE Mean(Col(fAAV)),
         MFA |-> IF weighted THEN PlanWeighted(Col(fMFA), mus) ELSE RZero,
         LT |-> total_lt,
         LTMCS |-> [mcs |-> MCS, lt |-> total_lt],
         total_mu |-> total_mu,
         prescribed_dose |-> pl.prescribed_dose,
         dose_per_fraction |-> pl.dose_per_fraction,
         number_of_fractions |-> pl.number_of_fractions,
         mu_per_gy |-> IF Truthy(pl.prescribed_dose) /\ total_mu > 0
                       THEN Some(Rat(total_mu, pl.prescribed_dose[1])) ELSE None,
         LG |-> Avg(fLG), MAD |-> Avg(fMAD), EFS |-> Avg(fEFS), psmall |-> Avg(fpsmall),
         MUCA |-> Avg(fMUCA),
         LTMU |-> IF total_mu > 0 THEN Some(Rat(total_lt, total_mu)) ELSE None,
         LTNLMU |-> Avg(fLTNLMU), LNA |-> Avg(fLNA), LTAL |-> Avg(fLTAL),
         mDRV |-> Avg(fmDRV),
         GT |-> IF total_gt > 0 THEN Some(total_gt) ELSE None,
         GS |-> Avg(fGS), mGSV |-> Avg(fmGSV), LS |-> Avg(fLS),
         PA |-> PositiveOrNone(RSeqSum(Col(fPA))),
         JA |-> PositiveOrNone(total_ja),
         PM |-> Avg(fPM), TG |-> Avg(fTG),
         \* the weighted average of the beams' sqrt(q): the list of <<q, MU>>
         \* terms, to be divided by the sum of their MU
         MD |-> IF weighted /\ md_valid # <<>>
                THEN Some([i \in 1..Len(md_valid) |->
                              [sqrt_of |-> bms[md_valid[i]].MD[1].sqrt_of,
                               mu |-> mus[md_valid[i]]]])
                ELSE None,
         MI |-> Avg(fMI),
         total_delivery_time |-> PositiveOrNone(RSeqSum(Col(fTime))),
         SAS5 |-> Avg(fSAS5), SAS10 |-> Avg(fSAS10), EM |-> Avg(fEM),
         PI |-> IF weighted /\ n > 0
                THEN Some(PiNum(Avg(fPIr)[1], Avg(fPIipi)[1])) ELSE None,
         PAM |-> Avg(fBAM),
         beam_metrics |-> bms]

\* calculate_plan_metrics aggregates once every beam has its BeamMetrics
AggregatePlan ==
    /\ pc = "next_beam"
    /\ b = Len(plan.beams)
    /\ plan_metrics' = Some(PlanMetricsOf(plan, beam_metrics))
    /\ pc' = "done"
    /\ UNCHANGED <<pam_vars, fn_vars, structure, pam_plan_result, plan, b, control_point_metrics, plan_min_gap, pass2_vars, beam_metrics,
                   raised>>

\* calculate_pam_plan(plan, structure), called once the PlanMetrics are there
PamPlan ==
    /\ pc = "done"
    /\ pam_plan_result = None
    /\ pam_plan_result' = Some(calculate_pam_plan(plan, structure))
    /\ UNCHANGED <<pam_vars, fn_vars, structure, plan, pc, b, control_point_metrics,
                   plan_min_gap, pass2_vars, beam_metrics, plan_metrics, raised>>

Next ==
    \/ StartBeam
    \/ ControlPointMetricsStep
    \/ FindPlanMinGap
    \/ ControlArcStep
    \/ AggregateBeam
    \/ AggregatePlan
    \/ PamPlan

Spec == Init /\ [][Next]_vars

-----------------------------------------------------------------------------
(* Properties of calculate_beam_metrics / calculate_plan_metrics           *)

\* beam i of the plan and its BeamMetrics, once computed
Computed == 1..Len(beam_metrics)

\* C1: the beam-level MCS, LSV and AAV of every beam lie in [0, 1], and so do
\* the plan-level MCS and LSV of every plan whose beams have non-negative MU.
ScoresWithinUnitInterval ==
    /\ \A i \in Computed :
          /\ RIn01(beam_metrics[i].MCS)
          /\ RIn01(beam_metrics[i].LSV)
          /\ RIn01(beam_metrics[i].AAV)
    /\ plan_metrics # None =>
          /\ RIn01(plan_metrics[1].MCS)
          /\ RIn01(plan_metrics[1].LSV)

\* a two-beam plan is aggregated whose scores are strictly inside (0, 1), one of
\* its beams having an AAV strictly inside (0, 1) as well
ScoresStrictlyInside ==
    /\ plan_metrics # None
    /\ Len(beam_metrics) = 2
    /\ RLt(RZero, plan_metrics[1].MCS) /\ RLt(plan_metrics[1].MCS, ROne)
    /\ RLt(RZero, plan_metrics[1].LSV) /\ RLt(plan_metrics[1].LSV, ROne)
    /\ \E i \in Computed :
          /\ RLt(RZero, beam_metrics[i].AAV) /\ RLt(beam_metrics[i].AAV, ROne)
          /\ RLt(RZero, beam_metrics[i].MCS) /\ RLt(beam_metrics[i].MCS, ROne)

\* every control arc scanned so far has area_ca <= A_max and AAV <= 1
UnionBoundsEveryArc ==
    pc = "pass2" =>
        \A j \in 1..Len(ca_areas) :
            /\ ca_areas[j] <= UnionAperture(per_leaf_max_contrib)
            /\ RLe(CaAav(ca_areas[j], UnionAperture(per_leaf_max_contrib)), ROne)

\* scanning a control arc lowers no leaf pair's running maximum
LeafMaximaNeverDecrease ==
    [][(pc = "pass2" /\ pc' = "pass2") =>
          \A k \in 1..Len(per_leaf_max_contrib) :
              per_leaf_max_contrib'[k] >= per_leaf_max_contrib[k]]_vars

\* C2: for every control arc j, area_ca[j] <= A_max, A_max being the sum of the
\* per-leaf running maxima of gap x clipped width; no per-leaf maximum ever
\* decreases while the control arcs are scanned; so every per-CA AAV is <= 1.
RunningMaximumBoundsArcs == []UnionBoundsEveryArc /\ LeafMaximaNeverDecrease

\* two control arcs are scanned and a leaf pair contributes less to the second
\* than its running maximum, the second arc still having a positive area
LaterArcBelowMaximum ==
    /\ pc = "pass2"
    /\ Len(ca_areas) = 2
    /\ ca_areas[2] > 0
    /\ ca_areas[2] < UnionAperture(per_leaf_max_contrib)
    /\ \E k \in 1..Len(per_leaf_max_contrib) :
          /\ CaContrib(CurBeam, 2, k) > 0
          /\ CaContrib(CurBeam, 2, k) < per_leaf_max_contrib[k]

\* a beam of exactly two control points with the same banks and jaws, every
\* leaf pair at the same open position inside the Y-jaw, weight going 0 -> 1
IdenticalOpenPair(beam) ==
    /\ Len(beam.control_points) = 2
    /\ LET cp1 == beam.control_points[1]
           cp2 == beam.control_points[2]
           a == cp1.mlc_positions.bank_a
           bb == cp1.mlc_positions.bank_b
           leaf_bounds == get_effective_leaf_boundaries(beam)
       IN  /\ cp1.mlc_positions = cp2.mlc_positions
           /\ cp1.jaw_positions = cp2.jaw_positions
           /\ cp1.cumulative_meterset_weight = RZero
           /\ cp2.cumulative_meterset_weight = ROne
           /\ Len(a) > 0 /\ Len(a) = Len(bb) /\ Len(a) = NPairs(beam)
           /\ Len(leaf_bounds) = Len(a) + 1
           /\ \A k \in 1..Len(a) :
                 /\ a[k] = a[1] /\ bb[k] = bb[1] /\ bb[k] > a[k]
                 /\ cp1.jaw_positions.y1 <= leaf_bounds[k]
                 /\ leaf_bounds[k + 1] <= cp1.jaw_positions.y2

\* C3: a beam of two control points with identical banks and jaws, all leaf
\* pairs at the same open position inside the Y-jaw and the weight rising from
\* 0 to 1, gets LSV = 1.0, AAV = 1.0 and MCS = 1.0.
IdenticalPairUnmodulated ==
    \A i \in Computed :
        IdenticalOpenPair(plan.beams[i]) =>
            /\ beam_metrics[i].LSV = ROne
            /\ beam_metrics[i].AAV = ROne
            /\ beam_metrics[i].MCS = ROne

\* C4: calculate_beam_metrics and calculate_plan_metrics never raise, every
\* division being guarded (leaf count 0 included).
NeverRaises == raised = "none"

\* C5: whatever the lengths of the banks, widths, boundaries and the leaf
\* count, no index outside a bank or the leaf-boundary array is read.
NoIndexError == raised # "IndexError"

\* the i-th leaf pair is the only open one, from -10 mm to +10 mm, the code
\* gives it a Y-extent, and the jaws contain the opening
OneLeafOpenInsideJaws(cp, leaf_widths, i) ==
    LET a == cp.mlc_positions.bank_a
        bb == cp.mlc_positions.bank_b
        n == Min2(Min2(Len(a), Len(bb)),
                  IF Len(leaf_widths) > 0 THEN Len(leaf_widths) ELSE Len(a))
    IN  /\ Len(a) = Len(bb)
        /\ i \in 1..n
        /\ a[i] = -20 /\ bb[i] = 20
        /\ \A k \in 1..Len(a) : k # i => bb[k] - a[k] = 0
        /\ cp.jaw_positions.x1 <= -20 /\ 20 <= cp.jaw_positions.x2
        /\ cp.jaw_positions.y1 <= LeafTop(leaf_widths, n, i)
        /\ LeafTop(leaf_widths, n, i) + WidthAt(leaf_widths, i) <= cp.jaw_positions.y2

\* C6: a beam of fewer than two control points does not raise and has no
\* control arc: LT = 0 and MCS = LSV = AAV = LTMCS = 0; with a single control
\* point whose only open leaf pair goes from -10 to +10 inside the jaws the
\* per-control-point aperture area is 20 x the leaf width.
FewControlPointsAllZero ==
    /\ (b >= 1 /\ NCps(CurBeam) < 2) => raised = "none"
    /\ \A i \in Computed :
          NCps(plan.beams[i]) < 2 =>
              /\ beam_metrics[i].LT = 0
              /\ beam_metrics[i].MCS = RZero
              /\ beam_metrics[i].LSV = RZero
              /\ beam_metrics[i].AAV = RZero
              /\ beam_metrics[i].LTMCS = [mcs |-> RZero, lt |-> 0]
    /\ (b >= 1 /\ NCps(CurBeam) = 1 /\ Len(control_point_metrics) = 1) =>
          \A i \in 1..Len(CurBeam.control_points[1].mlc_positions.bank_a) :
              OneLeafOpenInsideJaws(CurBeam.control_points[1],
                                    CurBeam.mlc_leaf_widths, i) =>
                  control_point_metrics[1].aperture_area
                      = 2 * 20 * WidthAt(CurBeam.mlc_leaf_widths, i)

\* the one-control-point beam with one leaf pair open from -10 to +10 has
\* returned its metrics
SingleOpenLeafReturned ==
    /\ Len(beam_metrics) = 1
    /\ NCps(plan.beams[1]) = 1
    /\ Len(control_point_metrics) = 1
    /\ control_point_metrics[1].aperture_area > 0
    /\ \E i \in 1..Len(plan.beams[1].control_points[1].mlc_positions.bank_a) :
          OneLeafOpenInsideJaws(plan.beams[1].control_points[1],
                                plan.beams[1].mlc_leaf_widths, i)

\* the required fields of a zeroed PlanMetrics
ZeroedCore(pm) ==
    /\ pm.MCS = RZero /\ pm.LSV = RZero /\ pm.AAV = RZero /\ pm.MFA = RZero
    /\ pm.LT = 0
    /\ pm.LTMCS = [mcs |-> RZero, lt |-> 0]
    /\ pm.total_mu = 0
    /\ pm.beam_metrics = <<>>

\* the Optional fields of PlanMetrics that calculate_plan_metrics computes
OptionalMetrics(pm) ==
    <<pm.mu_per_gy, pm.LG, pm.MAD, pm.EFS, pm.psmall, pm.MUCA, pm.LTMU, pm.LTNLMU,
      pm.LNA, pm.LTAL, pm.mDRV, pm.GT, pm.GS, pm.mGSV, pm.LS, pm.PA, pm.JA, pm.PM,
      pm.TG, pm.MD, pm.MI, pm.total_delivery_time, pm.SAS5, pm.SAS10, pm.EM, pm.PI,
      pm.PAM>>

\* the Optional fields of PlanMetrics copied from the plan
PrescriptionFields(pm) ==
    <<pm.prescribed_dose, pm.dose_per_fraction, pm.number_of_fractions>>

\* C7 (as amended): a plan with zero beams returns, without raising, a zeroed
\* PlanMetrics: MCS = LSV = AAV = MFA = LT = LTMCS = 0, total_mu = 0, an empty
\* beam_metrics list and every computed optional field None; its prescription
\* fields are the plan's, whatever number they hold.
EmptyPlanZeroed ==
    Len(plan.beams) = 0 =>
        /\ raised = "none"
        /\ plan_metrics # None =>
              /\ ZeroedCore(plan_metrics[1])
              /\ \A f \in 1..Len(OptionalMetrics(plan_metrics[1])) :
                    OptionalMetrics(plan_metrics[1])[f] = None
              /\ PrescriptionFields(plan_metrics[1])
                    = <<plan.prescribed_dose, plan.dose_per_fraction,
                        plan.number_of_fractions>>

\* the metrics of a plan with no beams and a prescription of 50 Gy are returned
EmptyPrescribedPlanReturned ==
    /\ Len(plan.beams) = 0
    /\ plan_metrics # None
    /\ plan.prescribed_dose = Some(50)

\* C7 (as stated): ... and no optional field holds a non-zero number.
EmptyPlanNoNumber ==
    (Len(plan.beams) = 0 /\ plan_metrics # None) =>
        /\ ZeroedCore(plan_metrics[1])
        /\ \A f \in 1..Len(OptionalMetrics(plan_metrics[1])) :
              \/ OptionalMetrics(plan_metrics[1])[f] = None
              \/ OptionalMetrics(plan_metrics[1])[f] = Some(RZero)
        /\ \A f \in 1..Len(PrescriptionFields(plan_metrics[1])) :
              \/ PrescriptionFields(plan_metrics[1])[f] = None
              \/ PrescriptionFields(plan_metrics[1])[f] = Some(0)

\* a beam with control points none of which carries MLC positions
NoMlcData(beam) ==
    /\ Len(beam.control_points) > 0
    /\ \A i \in 1..Len(beam.control_points) :
          /\ Len(beam.control_points[i].mlc_positions.bank_a) = 0
          /\ Len(beam.control_points[i].mlc_positions.bank_b) = 0

\* C8: a beam without MLC data does not raise and reports the MLC-derived
\* fields MCS, LSV, AAV and LT as None.
MlcFieldsAbsent ==
    /\ (b >= 1 /\ NoMlcData(CurBeam)) => raised = "none"
    /\ \A i \in Computed :
          NoMlcData(plan.beams[i]) =>
              /\ beam_metrics[i].MCS = None
              /\ beam_metrics[i].LSV = None
              /\ beam_metrics[i].AAV = None
              /\ beam_metrics[i].LT = None

-----------------------------------------------------------------------------
(* calculate_pam_control_point(structure, beam, cp_index)                  *)

\* calculate_plan_metrics is not running
MetricsIdle ==
    /\ plan = RTPlan(<<>>, NoPrescription)
    /\ structure = None
    /\ pam_plan_result = None
    /\ pc = "idle"
    /\ b = 0
    /\ control_point_metrics = <<>>
    /\ plan_min_gap = None
    /\ ca_areas = <<>>
    /\ ca_lsvs = <<>>
    /\ ca_lts = <<>>
    /\ ca_delta_mu = <<>>
    /\ per_leaf_max_contrib = <<>>
    /\ total_active_leaf_travel = 0
    /\ ca_active_leaf_count = 0
    /\ beam_metrics = <<>>
    /\ plan_metrics = None
    /\ raised = "none"

InitPAM ==
    /\ MetricsIdle
    /\ FnIdle
    /\ pam_pc = "start"
    /\ pam_structure \in PamStructures
    /\ pam_beam \in { Some(bm) : bm \in PamBeams }
    /\ pam_cp_index \in { 0, 1 }
    /\ target_poly = None
    /\ aperture_poly = None
    /\ pam_result = None

PamCp == pam_beam[1].control_points[pam_cp_index + 1]

PamReturn(value) ==
    /\ pam_result' = Some(value)
    /\ pam_pc' = "returned"

\* the argument checks: no structure, no contours, cp_index out of range, or
\* fewer than 3 contour points return None
PamCheckArguments ==
    /\ pam_pc = "start"
    /\ IF \/ pam_structure = None
          \/ Len(pam_structure[1].contours) = 0
          \/ pam_cp_index < 0
          \/ pam_cp_index >= Len(pam_beam[1].control_points)
       THEN PamReturn(None)
       ELSE IF Len(get_all_points(pam_structure[1].contours)) < 3
       THEN PamReturn(None)
       ELSE pam_pc' = "target" /\ UNCHANGED pam_result
    /\ UNCHANGED <<metrics_vars, fn_vars, pam_structure, pam_beam, pam_cp_index, target_poly,
                   aperture_poly>>

\* target_poly = contour_to_bev_polygon(...); None returns None
PamProjectTarget ==
    /\ pam_pc = "target"
    /\ target_poly' = contour_to_bev_polygon(get_all_points(pam_structure[1].contours),
                                             PamCp.gantry_angle)
    /\ IF target_poly' = None
       THEN PamReturn(None)
       ELSE pam_pc' = "aperture" /\ UNCHANGED pam_result
    /\ UNCHANGED <<metrics_vars, fn_vars, pam_structure, pam_beam, pam_cp_index, aperture_poly>>

\* aperture_poly = get_aperture_polygon(...); None returns 1.0
PamBuildAperture ==
    /\ pam_pc = "aperture"
    /\ aperture_poly' = get_aperture_polygon(PamCp.mlc_positions, PamCp.jaw_positions,
                                             get_effective_leaf_boundaries(pam_beam[1]))
    /\ IF aperture_poly' = None
       THEN PamReturn(ROne)
       ELSE pam_pc' = "modulation" /\ UNCHANGED pam_result
    /\ UNCHANGED <<metrics_vars, fn_vars, pam_structure, pam_beam, pam_cp_index, target_poly>>

\* am = calculate_aperture_modulation(target_poly, aperture_poly)
PamModulation ==
    /\ pam_pc = "modulation"
    /\ PamReturn(calculate_aperture_modulation(target_poly[1], aperture_poly[1]))
    /\ UNCHANGED <<metrics_vars, fn_vars, pam_structure, pam_beam, pam_cp_index, target_poly,
                   aperture_poly>>

NextPAM ==
    \/ PamCheckArguments
    \/ PamProjectTarget
    \/ PamBuildAperture
    \/ PamModulation

SpecPAM == InitPAM /\ [][NextPAM]_vars

-----------------------------------------------------------------------------
(* Properties of calculate_pam_control_point / get_aperture_polygon        *)

\* get_aperture_polygon has been called for the control point
ApertureBuilt == target_poly # None /\ pam_pc \in { "modulation", "returned" }

\* the clipped X- and Y-extent of leaf pair k
ClippedX(cp, k) ==
    Min2(cp.mlc_positions.bank_b[k], cp.jaw_positions.x2)
    - Max2(cp.mlc_positions.bank_a[k], cp.jaw_positions.x1)
ClippedY(cp, leaf_boundaries, k) ==
    Min2(leaf_boundaries[k + 1], cp.jaw_positions.y2)
    - Max2(leaf_boundaries[k], cp.jaw_positions.y1)

\* the leaf pairs that yield a rectangle of positive clipped extents
OpenLeafPairs(cp, leaf_boundaries) ==
    { k \in 1..PamPairs(cp.mlc_positions, leaf_boundaries) :
        ClippedX(cp, k) > 0 /\ ClippedY(cp, leaf_boundaries, k) > 0 }

\* area(target /\ union of the open leaf pairs' rectangles)
OpenTargetArea(target, cp, leaf_boundaries) ==
    LET open == OpenLeafPairs(cp, leaf_boundaries)
    IN  SetSum(open, [k \in open |->
            RectIntersection(target.rects[1],
                Rect(Max2(cp.mlc_positions.bank_a[k], cp.jaw_positions.x1),
                     Min2(cp.mlc_positions.bank_b[k], cp.jaw_positions.x2),
                     Max2(leaf_boundaries[k], cp.jaw_positions.y1),
                     Min2(leaf_boundaries[k + 1], cp.jaw_positions.y2)))])

\* C9: with a projectable target the value returned is
\* 1 - area(target /\ aperture) / area(target) clamped to [0, 1], the aperture
\* being the union of all open jaw-clipped leaf-pair rectangles: 0 when the
\* union contains the target, 1 when nothing is open or the two are disjoint.
ModulationOfOpenUnion ==
    (pam_pc = "returned" /\ target_poly # None) =>
        pam_result =
            Some(RMax(RZero, RMin(ROne,
                RSub(ROne, Rat(OpenTargetArea(target_poly[1], PamCp,
                                              get_effective_leaf_boundaries(pam_beam[1])),
                               target_poly[1].area)))))

\* C10: get_aperture_polygon returns None exactly when no leaf pair yields a
\* rectangle of positive clipped X- and Y-extent; otherwise, connected or not,
\* it returns the union of the rectangles, whose area is the sum of theirs.
ApertureNoneOnlyWhenClosed ==
    ApertureBuilt =>
        LET leaf_boundaries == get_effective_leaf_boundaries(pam_beam[1])
            open == OpenLeafPairs(PamCp, leaf_boundaries)
        IN  /\ (aperture_poly = None) <=> (open = {})
            /\ aperture_poly # None =>
                  aperture_poly[1].area =
                      SetSum(open, [k \in open |->
                          ClippedX(PamCp, k) * ClippedY(PamCp, leaf_boundaries, k)])

-----------------------------------------------------------------------------
(* Properties of calculate_pam_beam / calculate_pam_plan                   *)

\* the sum of the rationals f[x] over the finite set S
RECURSIVE RSetSum(_, _)
RSetSum(S, f) ==
    IF S = {} THEN RZero
    ELSE LET x == CHOOSE y \in S : TRUE IN RAdd(f[x], RSetSum(S \ {x}, f))

\* the control points (numbered from 1) whose aperture modulation is defined
AmDefined(target_structure, beam) ==
    { i \in 1..Len(beam.control_points) :
        calculate_pam_control_point(target_structure, beam, i - 1) # None }

\* the weight of control point i: its step of cumulative meterset weight, the
\* first control point counting its own cumulative weight
DeltaWeight(beam, i) ==
    IF i = 1 THEN beam.control_points[1].cumulative_meterset_weight
    ELSE RSub(beam.control_points[i].cumulative_meterset_weight,
              beam.control_points[i - 1].cumulative_meterset_weight)

\* the weight of all control points with a defined aperture modulation
DefinedWeight(target_structure, beam) ==
    LET defined == AmDefined(target_structure, beam)
    IN  RSetSum(defined, [i \in defined |-> DeltaWeight(beam, i)])

\* the delta-meterset-weighted mean of the defined aperture modulations
WeightedMeanAm(target_structure, beam) ==
    LET defined == AmDefined(target_structure, beam)
    IN  RDiv(RSetSum(defined,
                [i \in defined |->
                    RMul(calculate_pam_control_point(target_structure, beam, i - 1)[1],
                         DeltaWeight(beam, i))]),
             DefinedWeight(target_structure, beam))

\* every leaf pair of every control point is closed
FullyClosed(beam) ==
    \A i \in 1..Len(beam.control_points) :
        LET mlc == beam.control_points[i].mlc_positions
        IN  /\ Len(mlc.bank_a) = Len(mlc.bank_b)
            /\ \A k \in 1..Len(mlc.bank_a) : mlc.bank_a[k] = mlc.bank_b[k]

\* C11: for a beam computed with a target structure, BAM is None when the beam
\* has fewer than 2 control points or the weight of the control points with a
\* defined AM is at most 1e-6; otherwise it is the delta-meterset-weighted mean
\* of the defined AM values (control points without an AM counting neither in
\* the numerator nor in the denominator) and lies in [0, 1]; a fully closed
\* beam whose target projects at every control point has BAM = 1.
BamIsWeightedMeanOfDefinedAm ==
    \A i \in Computed :
        LET beam == plan.beams[i]
            bam == beam_metrics[i].BAM
        IN  structure # None =>
              IF \/ Len(beam.control_points) < 2
                 \/ RLe(DefinedWeight(structure, beam), WeightEpsilon)
              THEN bam = None
              ELSE /\ bam = Some(WeightedMeanAm(structure, beam))
                   /\ RIn01(bam[1])
                   /\ (/\ FullyClosed(beam)
                       /\ AmDefined(structure, beam) = 1..Len(beam.control_points))
                      => bam = Some(ROne)

\* a beam is computed whose middle control point has no AM (the target projects
\* to a line there) while the others have, and whose BAM is strictly inside
\* (0, 1); and a fully closed beam with a projecting target is computed
BamSkipsUndefinedControlPoint ==
    /\ structure # None
    /\ \E i \in Computed :
          LET beam == plan.beams[i]
          IN  /\ AmDefined(structure, beam) = {1, 3}
              /\ beam_metrics[i].BAM # None
              /\ RLt(RZero, beam_metrics[i].BAM[1])
              /\ RLt(beam_metrics[i].BAM[1], ROne)
    /\ \E i \in Computed :
          LET beam == plan.beams[i]
          IN  /\ FullyClosed(beam)
              /\ AmDefined(structure, beam) = 1..Len(beam.control_points)
              /\ beam_metrics[i].BAM = Some(ROne)

\* the beams whose BAM is defined
BamDefined == { i \in Computed : beam_metrics[i].BAM # None }

\* the beam-MU-weighted mean of the defined BAM values, None when there is no
\* BAM or the MU of those beams add up to nothing
MuWeightedBam ==
    LET total_mu == SetSum(BamDefined, [i \in BamDefined |-> beam_metrics[i].beam_mu])
    IN  IF BamDefined = {} \/ total_mu = 0 THEN None
        ELSE Some(RDiv(RSetSum(BamDefined,
                          [i \in BamDefined |->
                              RMul(beam_metrics[i].BAM[1], RInt(beam_metrics[i].beam_mu))]),
                       RInt(total_mu)))

\* C12: for a plan and a target structure, the PAM field of
\* calculate_plan_metrics and the value of calculate_pam_plan are both the
\* beam-MU-weighted mean of the defined BAM values (None when no beam has a
\* BAM or the total MU is 0), and so they are equal.
PlanPamIsMuWeightedBam ==
    (plan_metrics # None /\ pam_plan_result # None /\ structure # None) =>
        /\ plan_metrics[1].PAM = pam_plan_result[1]
        /\ plan_metrics[1].PAM = MuWeightedBam

-----------------------------------------------------------------------------
(* Properties of the plan-level aggregation                                *)

\* the weight of beam i: its MU, or 1 when the MU is zero or unset
BeamWeight(i) == IF beam_metrics[i].beam_mu = 0 THEN 1 ELSE beam_metrics[i].beam_mu

\* sum_b(value_b x w_b) / sum_b(w_b) over all beams, value a function of the
\* beam number
MuWeightedMean(value) ==
    RDiv(RSetSum(Computed, [i \in Computed |-> RMul(value[i], RInt(BeamWeight(i)))]),
         RInt(SetSum(Computed, [i \in Computed |-> BeamWeight(i)])))

\* the ratio-type plan fields other than LTMU are the MU-weighted means of the
\* beams' values (no beam holds None in any of them)
RatioFieldsAreMuWeightedMeans ==
    LET pm == plan_metrics[1]
        bm == beam_metrics
    IN  /\ pm.MCS = MuWeightedMean([i \in Computed |-> bm[i].MCS])
        /\ pm.LSV = MuWeightedMean([i \in Computed |-> bm[i].LSV])
        /\ pm.AAV = MuWeightedMean([i \in Computed |-> bm[i].AAV])
        /\ pm.MFA = MuWeightedMean([i \in Computed |-> bm[i].MFA])
        /\ pm.LG = Some(MuWeightedMean([i \in Computed |-> bm[i].LG]))
        /\ pm.MAD = Some(MuWeightedMean([i \in Computed |-> bm[i].MAD]))
        /\ pm.EFS = Some(MuWeightedMean([i \in Computed |-> bm[i].EFS]))
        /\ pm.psmall = Some(MuWeightedMean([i \in Computed |-> bm[i].psmall]))
        /\ pm.MUCA = Some(MuWeightedMean([i \in Computed |-> bm[i].MUCA]))
        /\ pm.LTNLMU = Some(MuWeightedMean([i \in Computed |-> bm[i].LTNLMU]))
        /\ pm.LNA = Some(MuWeightedMean([i \in Computed |-> bm[i].LNA]))
        /\ pm.PM = Some(MuWeightedMean([i \in Computed |-> bm[i].PM]))
        /\ pm.TG = Some(MuWeightedMean([i \in Computed |-> bm[i].TG]))
        /\ pm.SAS5 = Some(MuWeightedMean([i \in Computed |-> bm[i].SAS5]))
        /\ pm.SAS10 = Some(MuWeightedMean([i \in Computed |-> bm[i].SAS10]))
        /\ pm.EM = Some(MuWeightedMean([i \in Computed |-> bm[i].EM]))
        /\ pm.PI = Some(PiNum(MuWeightedMean([i \in Computed |-> bm[i].PI.r]),
                              MuWeightedMean([i \in Computed |-> bm[i].PI.ipi])))

\* C13: for a plan with at least one beam, every ratio-type plan field (MCS,
\* LSV, AAV, MFA, LG, MAD, EFS, psmall, MUCA, LTMU, LTNLMU, LNA, PM, TG, SAS5,
\* SAS10, EM, PI) is sum_b(value_b x w_b) / sum_b(w_b), w_b being the beam's MU
\* or 1 when that is zero or unset.
EveryRatioFieldIsMuWeightedMean ==
    (plan_metrics # None /\ Len(beam_metrics) > 0) =>
        /\ RatioFieldsAreMuWeightedMeans
        /\ plan_metrics[1].LTMU =
               Some(MuWeightedMean([i \in Computed |-> beam_metrics[i].LTMU]))

\* the orders the n beams of a plan can be given in
BeamOrders(n) == { p \in [1..n -> 1..n] : \A i, j \in 1..n : p[i] = p[j] => i = j }

\* the sequence xs taken in the order p
Reordered(xs, p) == [i \in 1..Len(xs) |-> xs[p[i]]]

\* the plan-level values of a PlanMetrics: every field but the beam_metrics
\* list, the terms of the MD sum taken as a set with their multiplicities
PlanLevelValues(pm) ==
    [pm EXCEPT !.beam_metrics = <<>>,
               !.MD = IF pm.MD = None THEN None
                      ELSE { <<term, Cardinality({ i \in 1..Len(pm.MD[1]) :
                                                    pm.MD[1][i] = term })>> :
                               term \in { pm.MD[1][i] : i \in 1..Len(pm.MD[1]) } }]

-----------------------------------------------------------------------------
(* Properties of the delivery-time estimate                                *)

\* the transitions of a beam, numbered by the control point they leave
Transitions(beam) == 1..(Len(beam.control_points) - 1)

\* the three candidate times of transition k under the default machine: the
\* MU of the segment over the dose rate per second, the gantry step over the
\* gantry speed (arcs only), the largest travel of one leaf over the leaf speed
CandidateTimes(beam, k) ==
    LET prev == beam.control_points[k]
        next == beam.control_points[k + 1]
        segment_mu == RMul(RMax(RZero, DeltaWeight(beam, k + 1)),
                           RInt(PyOr(beam.beam_dose, 100)))
    IN  [dose |-> RDiv(segment_mu, RInt(10)),
         gantry |-> IF beam.is_arc
                    THEN RDiv(RInt(Abs(next.gantry_angle - prev.gantry_angle)),
                              Rat(48, 10))
                    ELSE RZero,
         mlc |-> RDiv(RInt(get_max_leaf_travel(prev.mlc_positions,
                                               next.mlc_positions)),
                      RInt(50))]

\* the largest of a finite non-empty set of rationals
Largest(S) == CHOOSE t \in S : \A u \in S : RLe(u, t)

\* transition k is bound by the dose rate: no other candidate time is larger
DoseRateBound(beam, k) ==
    LET t == CandidateTimes(beam, k)
    IN  RLe(t.gantry, t.dose) /\ RLe(t.mlc, t.dose)

\* C15: the estimated delivery time of every beam is the sum over its
\* control-point transitions of the largest of the three candidate times
\* (dose rate, gantry speed - 0 for a non-arc beam -, MLC speed); when every
\* transition is dose-rate-bound it is the sum of the dose-rate times.
DeliveryTimeIsSumOfSegmentMaxima ==
    \A i \in Computed :
        LET beam == plan.beams[i]
            segs == Transitions(beam)
        IN  /\ beam_metrics[i].estimated_delivery_time =
                   RSetSum(segs, [k \in segs |->
                              LET t == CandidateTimes(beam, k)
                              IN  Largest({ t.dose, t.gantry, t.mlc })])
            /\ (\A k \in segs : DoseRateBound(beam, k))
                   => beam_metrics[i].estimated_delivery_time =
                          RSetSum(segs, [k \in segs |-> CandidateTimes(beam, k).dose])

\* an arc with one transition bound by the gantry alone and another bound by
\* the leaves alone has been estimated
GantryAndLeafBoundArcEstimated ==
    \E i \in Computed :
        LET beam == plan.beams[i]
        IN  /\ beam.is_arc
            /\ \E k \in Transitions(beam) :
                   LET t == CandidateTimes(beam, k)
                   IN  RLt(t.dose, t.gantry) /\ RLt(t.mlc, t.gantry)
            /\ \E k \in Transitions(beam) :
                   LET t == CandidateTimes(beam, k)
                   IN  RLt(t.dose, t.mlc) /\ RLt(t.gantry, t.mlc)
            /\ RLt(RZero, beam_metrics[i].estimated_delivery_time)

\* the limits, in the order in which ties are resolved
Limits == <<"doseRate", "gantrySpeed", "mlcSpeed">>

\* the limit whose time is the largest of the three, the earliest in Limits
\* when several are
FirstLargest(times) ==
    LET top == Largest({ times[j] : j \in 1..3 })
    IN  Limits[CHOOSE j \in 1..3 :
                   times[j] = top /\ \A h \in 1..(j - 1) : times[h] # top]

\* the time of the transitions of a beam that a limit binds
LimitTotal(beam, limit) ==
    LET bound == { k \in Transitions(beam) :
                      LET t == CandidateTimes(beam, k)
                      IN  FirstLargest(<<t.dose, t.gantry, t.mlc>>) = limit }
    IN  RSetSum(bound, [k \in bound |->
                   LET t == CandidateTimes(beam, k)
                   IN  Largest({ t.dose, t.gantry, t.mlc })])

\* C16: the limiting factor of every beam is the limit with the largest
\* running total, each transition counting for the limit that binds it and
\* ties going to the dose rate before the gantry before the MLC; a beam whose
\* transitions are all dose-rate-bound reports the dose rate and a non-arc
\* beam never reports the gantry; the running totals of the estimator are
\* those totals and add up to the total time.
LimitingFactorIsLargestRunningTotal ==
    /\ \A i \in Computed :
           LET beam == plan.beams[i]
               reported == beam_metrics[i].limiting_factor
           IN  /\ reported = FirstLargest(<<LimitTotal(beam, "doseRate"),
                                            LimitTotal(beam, "gantrySpeed"),
                                            LimitTotal(beam, "mlcSpeed")>>)
               /\ (\A k \in Transitions(beam) : DoseRateBound(beam, k))
                      => reported = "doseRate"
               /\ ~beam.is_arc => reported # "gantrySpeed"
    /\ pc = "pass2" =>
           LET acc == DeliveryLoop(CurBeam, control_point_metrics,
                                   DEFAULT_MACHINE_PARAMS, Max2(0, NCps(CurBeam) - 1))
           IN  /\ acc.dose_rate_limited_time = LimitTotal(CurBeam, "doseRate")
               /\ acc.gantry_limited_time = LimitTotal(CurBeam, "gantrySpeed")
               /\ acc.mlc_limited_time = LimitTotal(CurBeam, "mlcSpeed")
               /\ acc.total_time = RAdd(RAdd(acc.dose_rate_limited_time,
                                             acc.gantry_limited_time),
                                        acc.mlc_limited_time)

\* an arc whose gantry and MLC totals are equal and larger than the dose-rate
\* total has been estimated, and reports the gantry
GantryWinsTieWithMlc ==
    \E i \in Computed :
        LET beam == plan.beams[i]
        IN  /\ beam.is_arc
            /\ LimitTotal(beam, "gantrySpeed") = LimitTotal(beam, "mlcSpeed")
            /\ RLt(LimitTotal(beam, "doseRate"), LimitTotal(beam, "gantrySpeed"))
            /\ beam_metrics[i].limiting_factor = "gantrySpeed"

\* C17: a beam with at most one control point has an estimated delivery time
\* of 0 and no limiting factor: its limiting_factor is none of doseRate,
\* gantrySpeed and mlcSpeed.
ShortBeamHasNoLimitingFactor ==
    \A i \in Computed :
        NCps(plan.beams[i]) <= 1 =>
            /\ beam_metrics[i].estimated_delivery_time = RZero
            /\ beam_metrics[i].limiting_factor \notin
                   { "doseRate", "gantrySpeed", "mlcSpeed" }

-----------------------------------------------------------------------------
(* The geometry functions called on their own: calculate_lsv_bank,         *)
(* calculate_aperture_area, compute_leaf_boundaries                        *)

\* most leaves of a bank passed to calculate_lsv_bank
MaxLeaves == 3
\* most leaf pairs passed to calculate_aperture_area
MaxPairs == 2
\* most leaf widths passed to compute_leaf_boundaries
MaxWidths == 4
\* most leaf pairs passed to calculate_aperture_perimeter
MaxRows == 3

\* leaf positions of a bank, and the jaws: wide open, clipping, never set (all
\* zero, the default of JawPositions), with the X jaws alone left unset, open
\* on the left half only, and open over the first leaf rows only
BankPositions == { -8, 0, 8 }
NoJaw == Jaw(0, 0, 0, 0)
NoXJaw == Jaw(0, 0, -20, 20)
EdgeJaw == Jaw(-8, 0, -20, 20)
LowJaw == Jaw(-20, 20, -20, 0)

LsvBankCalls ==
    UNION { { [fn |-> "calculate_lsv_bank", positions |-> q, active_mask |-> m] :
                m \in [1..Len(q) -> BOOLEAN] } :
            q \in SeqsUpTo(BankPositions, MaxLeaves) }

ApertureAreaCalls ==
    UNION { { [fn |-> "calculate_aperture_area",
               mlc_positions |-> Mlc(a, bb),
               leaf_widths |-> w,
               jaw_positions |-> j] :
                bb \in [1..Len(a) -> BankPositions],
                w \in { <<>>, [k \in 1..Len(a) |-> 10] },
                j \in { WideJaw, ClipJaw, NoJaw, NoXJaw, EdgeJaw, LowJaw } } :
            a \in SeqsUpTo(BankPositions, MaxPairs) }

\* each leaf pair closed, open to the left, to the right or across, or with
\* its leaves crossed; the leaf-width list is empty, shorter than the banks
\* (one leaf of 10 mm), or as long as the banks
AperturePerimeterCalls ==
    LET openings == { <<0, 0>>, <<-8, 0>>, <<0, 8>>, <<-8, 8>>, <<8, 0>> }
    IN  UNION { { [fn |-> "calculate_aperture_perimeter",
                   mlc_positions |-> Mlc([k \in 1..Len(rows) |-> rows[k][1]],
                                         [k \in 1..Len(rows) |-> rows[k][2]]),
                   leaf_widths |-> w,
                   jaw_positions |-> j] :
                    w \in { <<>>, <<20>>, [k \in 1..Len(rows) |-> 10] },
                    j \in { WideJaw, ClipJaw, NoJaw, NoXJaw, EdgeJaw, LowJaw } } :
                rows \in SeqsUpTo(openings, MaxRows) }

LeafBoundariesCalls ==
    { [fn |-> "compute_leaf_boundaries", leaf_widths |-> w, num_pairs |-> n] :
        w \in SeqsUpTo({ 10, 20 }, MaxWidths), n \in 0..(MaxWidths + 1) }

InitFn ==
    /\ MetricsIdle
    /\ PamIdle
    /\ fn_result = None
    /\ \/ \E c \in LsvBankCalls : fn_call = Some(c)
       \/ \E c \in ApertureAreaCalls : fn_call = Some(c)
       \/ \E c \in LeafBoundariesCalls : fn_call = Some(c)
       \/ \E c \in AperturePerimeterCalls : fn_call = Some(c)

\* the call of the given function has not returned yet
Pending(fn) == fn_call # None /\ fn_result = None /\ fn_call[1].fn = fn

LsvBank ==
    /\ Pending("calculate_lsv_bank")
    /\ fn_result' = Some(calculate_lsv_bank(fn_call[1].positions, fn_call[1].active_mask))
    /\ UNCHANGED <<metrics_vars, pam_vars, fn_call>>

ApertureArea ==
    /\ Pending("calculate_aperture_area")
    /\ fn_result' = Some(calculate_aperture_area(fn_call[1].mlc_positions,
                                                 fn_call[1].leaf_widths,
                                                 fn_call[1].jaw_positions))
    /\ UNCHANGED <<metrics_vars, pam_vars, fn_call>>

LeafBoundaries ==
    /\ Pending("compute_leaf_boundaries")
    /\ fn_result' = Some(compute_leaf_boundaries(fn_call[1].leaf_widths,
                                                 fn_call[1].num_pairs))
    /\ UNCHANGED <<metrics_vars, pam_vars, fn_call>>

AperturePerimeter ==
    /\ Pending("calculate_aperture_perimeter")
    /\ fn_result' = Some(calculate_aperture_perimeter(fn_call[1].mlc_positions,
                                                      fn_call[1].leaf_widths,
                                                      fn_call[1].jaw_positions))
    /\ UNCHANGED <<metrics_vars, pam_vars, fn_call>>

NextFn ==
    \/ LsvBank
    \/ ApertureArea
    \/ LeafBoundaries
    \/ AperturePerimeter

SpecFn == InitFn /\ [][NextFn]_vars

\* the call of the given function has returned
Returned(fn) == fn_call # None /\ fn_result # None /\ fn_call[1].fn = fn

-----------------------------------------------------------------------------
(* Properties of calculate_lsv_bank                                        *)

\* the positions of the active leaves, in leaf order
RECURSIVE ActivePositions(_, _)
ActivePositions(positions, active_mask) ==
    IF positions = <<>> THEN <<>>
    ELSE LET n == Len(positions)
             front == ActivePositions(SubSeq(positions, 1, n - 1),
                                      SubSeq(active_mask, 1, n - 1))
         IN  IF active_mask[n] THEN Append(front, positions[n]) ELSE front

\* the absolute differences between neighbours of a list
AdjacentDiffs(q) == [i \in 1..(Len(q) - 1) |-> Abs(q[i + 1] - q[i])]

\* the largest entry of a non-empty list of integers
TopOf(d) == CHOOSE t \in { d[i] : i \in 1..Len(d) } : \A i \in 1..Len(d) : d[i] <= t

\* mean(1 - |diff| / max diff) over a non-empty list of differences that are
\* not all zero
MeanUniformity(d) ==
    RDiv(RSetSum(1..Len(d), [i \in 1..Len(d) |-> RSub(ROne, Rat(d[i], TopOf(d)))]),
         RInt(Len(d)))

\* C18 as stated: calculate_lsv_bank returns 1 whenever fewer than two leaves
\* are active and whenever every adjacent difference of the active positions
\* equals the largest one; in every other case it returns
\* mean(1 - |diff| / max diff), a value in [0, 1].
LsvBankOneWhenAllDiffsEqual ==
    Returned("calculate_lsv_bank") =>
        LET q == ActivePositions(fn_call[1].positions, fn_call[1].active_mask)
            d == AdjacentDiffs(q)
        IN  IF Len(q) < 2 \/ \A i \in 1..Len(d) : d[i] = TopOf(d)
            THEN fn_result[1] = ROne
            ELSE fn_result[1] = MeanUniformity(d) /\ RIn01(fn_result[1])

\* C18 amended: calculate_lsv_bank returns 1 when fewer than two leaves are
\* active or all active positions are identical (every adjacent difference
\* is 0); in every other case it returns mean(1 - |diff| / max diff), a value
\* in [0, 1], which is 0 when every adjacent difference equals the largest.
LsvBankOneOnlyWhenUniform ==
    Returned("calculate_lsv_bank") =>
        LET q == ActivePositions(fn_call[1].positions, fn_call[1].active_mask)
            d == AdjacentDiffs(q)
        IN  IF Len(q) < 2 \/ \A i \in 1..Len(d) : d[i] = 0
            THEN fn_result[1] = ROne
            ELSE /\ fn_result[1] = MeanUniformity(d)
                 /\ RIn01(fn_result[1])
                 /\ (\A i \in 1..Len(d) : d[i] = TopOf(d)) => fn_result[1] = RZero

\* three active leaves in equal non-zero steps have been scored, with 0
EqualStepsScoreZero ==
    /\ Returned("calculate_lsv_bank")
    /\ LET q == ActivePositions(fn_call[1].positions, fn_call[1].active_mask)
           d == AdjacentDiffs(q)
       IN  Len(q) = 3 /\ d[1] = d[2] /\ d[1] > 0
    /\ fn_result[1] = RZero

-----------------------------------------------------------------------------
(* Properties of calculate_aperture_area                                   *)

\* every leaf pair of the call is fully closed
AllPairsClosed(mlc_positions) ==
    \A k \in 1..Len(mlc_positions.bank_a) :
        mlc_positions.bank_a[k] = mlc_positions.bank_b[k]

\* leaf pair k of a stack of 5 mm leaves centred on 0 has an opening of
\* positive length inside the jaws: its row reaches into the Y jaws and its
\* gap, cut to the X jaws unless both are 0, is positive
OpenInsideJaws(mlc_positions, jaw_positions, k) ==
    LET n == Len(mlc_positions.bank_a)
        top == 10 * (k - 1) - 5 * n
        bot == top + 10
        a == mlc_positions.bank_a[k]
        bb == mlc_positions.bank_b[k]
        x_unset == jaw_positions.x1 = 0 /\ jaw_positions.x2 = 0
    IN  /\ \E y \in top..(bot - 1) : jaw_positions.y1 <= y /\ y + 1 <= jaw_positions.y2
        /\ \E x \in a..(bb - 1) :
               x_unset \/ (jaw_positions.x1 <= x /\ x + 1 <= jaw_positions.x2)

\* C19 as stated: for every MLC position set, leaf-width list and jaw setting
\* calculate_aperture_area returns 0 if and only if every leaf pair is fully
\* closed, and any leaf pair with bank_b > bank_a gives a positive area.
AreaZeroIffAllPairsClosed ==
    Returned("calculate_aperture_area") =>
        LET mlc == fn_call[1].mlc_positions
        IN  /\ fn_result[1] = 0 <=> AllPairsClosed(mlc)
            /\ (\E k \in 1..Len(mlc.bank_a) : mlc.bank_b[k] > mlc.bank_a[k])
                   => fn_result[1] > 0

\* C19 amended: calculate_aperture_area is never negative and returns 0 if
\* and only if no leaf pair has an opening of positive length inside the
\* jaws; so it returns 0 when every leaf pair is fully closed, and a leaf pair
\* with bank_b > bank_a gives a positive area exactly when part of its
\* opening lies inside the jaws.
AreaZeroIffNothingOpenInsideJaws ==
    Returned("calculate_aperture_area") =>
        LET mlc == fn_call[1].mlc_positions
            jaw == fn_call[1].jaw_positions
            open == { k \in 1..Len(mlc.bank_a) : OpenInsideJaws(mlc, jaw, k) }
        IN  /\ fn_result[1] >= 0
            /\ fn_result[1] = 0 <=> open = {}
            /\ AllPairsClosed(mlc) => fn_result[1] = 0
            /\ \A k \in open : fn_result[1] > 0

\* an aperture with an open leaf pair that jaws open in X and in Y hide has
\* been measured, with area 0
OpenLeafHiddenByJaws ==
    /\ Returned("calculate_aperture_area")
    /\ \E k \in 1..Len(fn_call[1].mlc_positions.bank_a) :
           fn_call[1].mlc_positions.bank_b[k] > fn_call[1].mlc_positions.bank_a[k]
    /\ fn_call[1].jaw_positions.x1 < fn_call[1].jaw_positions.x2
    /\ fn_call[1].jaw_positions.y1 < fn_call[1].jaw_positions.y2
    /\ fn_result[1] = 0

-----------------------------------------------------------------------------
(* Properties of compute_leaf_boundaries                                   *)

\* C20: for N leaf widths and num_pairs = N, compute_leaf_boundaries returns
\* N + 1 boundaries in increasing order whose consecutive differences are the
\* widths and whose first and last values are negatives of each other; four
\* pairs of 5 mm give -10, -5, 0, 5, 10 mm.
LeafBoundariesCentredAndSpaced ==
    (Returned("compute_leaf_boundaries")
        /\ fn_call[1].num_pairs = Len(fn_call[1].leaf_widths)) =>
        LET widths == fn_call[1].leaf_widths
            N == Len(widths)
            boundaries == fn_result[1]
        IN  /\ Len(boundaries) = N + 1
            /\ \A i \in 1..N : boundaries[i] < boundaries[i + 1]
            /\ \A i \in 1..N : boundaries[i + 1] - boundaries[i] = widths[i]
            /\ boundaries[1] = -boundaries[N + 1]
            /\ widths = <<10, 10, 10, 10>> => boundaries = <<-20, -10, 0, 10, 20>>

\* the boundaries of four pairs of 5 mm have been computed
FourPairsOfFiveMillimetres ==
    /\ Returned("compute_leaf_boundaries")
    /\ fn_call[1].leaf_widths = <<10, 10, 10, 10>>
    /\ fn_call[1].num_pairs = 4
    /\ fn_result[1] = <<-20, -10, 0, 10, 20>>

\* C21: when the declared number of leaf pairs exceeds the number of widths
\* supplied, compute_leaf_boundaries still returns declared pairs + 1
\* boundaries, a missing width counting as 5 mm.
MissingWidthsDefaultToFiveMillimetres ==
    (Returned("compute_leaf_boundaries")
        /\ fn_call[1].num_pairs > Len(fn_call[1].leaf_widths)) =>
        LET widths == fn_call[1].leaf_widths
            boundaries == fn_result[1]
        IN  /\ Len(boundaries) = fn_call[1].num_pairs + 1
            /\ \A i \in 1..(Len(boundaries) - 1) :
                   boundaries[i + 1] - boundaries[i] =
                       IF i <= Len(widths) THEN widths[i] ELSE 10

\* C22: for every beam that is not an arc, arc_length, GT, GS,
\* average_gantry_speed, LTAL, mGSV and MU_per_degree are all None, whatever
\* gantry angles its control points carry; for an arc of fewer than two control
\* points, arc_length, GT, GS and LTAL are None.
GantryMetricsNoneOffArc ==
    \A i \in Computed :
        LET beam == plan.beams[i]
            m == beam_metrics[i]
        IN  /\ ~beam.is_arc =>
                  /\ m.arc_length = None
                  /\ m.GT = None
                  /\ m.GS = None
                  /\ m.average_gantry_speed = None
                  /\ m.LTAL = None
                  /\ m.mGSV = None
                  /\ m.MU_per_degree = None
            /\ (beam.is_arc /\ Len(beam.control_points) < 2) =>
                  /\ m.arc_length = None
                  /\ m.GT = None
                  /\ m.GS = None
                  /\ m.LTAL = None

\* a static beam whose gantry angle changes between control points has been
\* computed, with a positive delivery time and leaf travel
StaticBeamWithMovingGantryComputed ==
    \E i \in Computed :
        LET beam == plan.beams[i]
        IN  /\ ~beam.is_arc
            /\ \E j \in 2..Len(beam.control_points) :
                   beam.control_points[j].gantry_angle
                       # beam.control_points[j - 1].gantry_angle
            /\ RLt(RZero, beam_metrics[i].estimated_delivery_time)
            /\ beam_metrics[i].GT = None
            /\ beam_metrics[i].mGSV = None

-----------------------------------------------------------------------------
(* Active leaves and leaf travel                                           *)

\* the leaf pairs of control point i: those of the declared pairs that
\* both banks hold
LeafPairsAt(beam, i) ==
    { k \in 1..NPairs(beam) :
        /\ k <= Len(beam.control_points[i].mlc_positions.bank_a)
        /\ k <= Len(beam.control_points[i].mlc_positions.bank_b) }

\* the gap of leaf pair k at control point i
GapAt(beam, i, k) ==
    beam.control_points[i].mlc_positions.bank_b[k]
        - beam.control_points[i].mlc_positions.bank_a[k]

\* the smallest gap of any leaf pair of any control point, 0 when there is
\* no gap at all or the smallest is negative
SmallestGap(beam) ==
    LET gaps == { GapAt(beam, ik[1], ik[2]) :
                    ik \in { x \in (1..NCps(beam)) \X (1..NPairs(beam)) :
                               x[2] \in LeafPairsAt(beam, x[1]) } }
    IN  IF gaps = {} THEN 0
        ELSE LET least == CHOOSE g \in gaps : \A h \in gaps : g <= h
             IN  IF least < 0 THEN 0 ELSE least

\* the leaf pairs of control arc j: those of both its control points
ArcPairs(beam, j) == LeafPairsAt(beam, j) \cap LeafPairsAt(beam, j + 1)

\* the gap of leaf pair k at the midpoint of control arc j
MidpointGap(beam, j, k) == Half(GapAt(beam, j, k) + GapAt(beam, j + 1, k))

\* leaf pair k of control arc j: its Y-extent overlaps the midpoint Y-jaw
\* opening and its midpoint gap exceeds the smallest gap of the beam
ActivePair(beam, j, k) ==
    LET bounds == get_effective_leaf_boundaries(beam)
        y1 == Half(beam.control_points[j].jaw_positions.y1
                   + beam.control_points[j + 1].jaw_positions.y1)
        y2 == Half(beam.control_points[j].jaw_positions.y2
                   + beam.control_points[j + 1].jaw_positions.y2)
    IN  /\ bounds[k + 1] > y1
        /\ bounds[k] < y2
        /\ MidpointGap(beam, j, k) > SmallestGap(beam)

\* |delta bank_a| + |delta bank_b| of leaf pair k between the control
\* points of control arc j
PairTravel(beam, j, k) ==
    Abs(beam.control_points[j + 1].mlc_positions.bank_a[k]
        - beam.control_points[j].mlc_positions.bank_a[k])
    + Abs(beam.control_points[j + 1].mlc_positions.bank_b[k]
          - beam.control_points[j].mlc_positions.bank_b[k])

\* the active leaf pairs of control arc j
ActivePairs(beam, j) == { k \in ArcPairs(beam, j) : ActivePair(beam, j, k) }

\* the travel of the active leaf pairs of control arc j
ActiveTravel(beam, j) ==
    SetSum(ActivePairs(beam, j), [k \in ActivePairs(beam, j) |-> PairTravel(beam, j, k)])

\* the open area of the active leaf pairs at the midpoint of control arc j
ActiveArea(beam, j) ==
    LET bounds == get_effective_leaf_boundaries(beam)
        y1 == Half(beam.control_points[j].jaw_positions.y1
                   + beam.control_points[j + 1].jaw_positions.y1)
        y2 == Half(beam.control_points[j].jaw_positions.y2
                   + beam.control_points[j + 1].jaw_positions.y2)
    IN  SetSum(ActivePairs(beam, j),
               [k \in ActivePairs(beam, j) |->
                   MidpointGap(beam, j, k)
                       * (Min2(bounds[k + 1], y2) - Max2(bounds[k], y1))])

-----------------------------------------------------------------------------
(* Aggregation over control arcs                                           *)

\* the beam just computed, its per-CA values still in the accumulators
BeamJustComputed == pc = "next_beam" /\ b >= 1 /\ Len(beam_metrics) = b

\* the per-CA AAV of the beam just computed
ArcAav(j) ==
    IF SeqSum(per_leaf_max_contrib) > 0
    THEN Rat(ca_areas[j], SeqSum(per_leaf_max_contrib)) ELSE RZero

\* the mean of the per-CA values x, weighted by delta-MU when the total
\* delta-MU is positive and unweighted when it is 0
ArcMean(x) ==
    LET total == RSeqSum(ca_delta_mu)
        arcs == 1..Len(ca_delta_mu)
    IN  IF RLt(RZero, total)
        THEN RDiv(RSetSum(arcs, [j \in arcs |-> RMul(x[j], ca_delta_mu[j])]), total)
        ELSE RDiv(RSetSum(arcs, x), RInt(Len(ca_delta_mu)))

\* C24: for a beam of at least one control arc, LSV, AAV and MCS are the
\* means of the per-CA values LSV_ca, AAV_ca and LSV_ca x AAV_ca: unweighted
\* when the total delta-MU is 0, weighted by delta-MU when it is positive.
ScoresAreMeansOfControlArcValues ==
    (BeamJustComputed /\ NCa(CurBeam) >= 1) =>
        LET arcs == 1..NCa(CurBeam)
        IN  /\ beam_metrics[b].LSV = ArcMean([j \in arcs |-> ca_lsvs[j]])
            /\ beam_metrics[b].AAV = ArcMean([j \in arcs |-> ArcAav(j)])
            /\ beam_metrics[b].MCS =
                   ArcMean([j \in arcs |-> RMul(ca_lsvs[j], ArcAav(j))])

-----------------------------------------------------------------------------
(* Aggregation over control points                                         *)

\* w_i: the cumulative weight of control point i less that of the point
\* before it (the first point: its own cumulative weight), never below 0
PointWeight(beam, i) ==
    RMax(RZero, RSub(beam.control_points[i].cumulative_meterset_weight,
                     IF i = 1 THEN RZero
                     ELSE beam.control_points[i - 1].cumulative_meterset_weight))

\* sum of w_i over the control points of the beam
TotalPointWeight(beam) ==
    RSetSum(1..NCps(beam), [i \in 1..NCps(beam) |-> PointWeight(beam, i)])

\* sum(value_i x w_i) / sum(w_i) over the control points of the beam
MetersetWeightedMean(beam, value) ==
    RDiv(RSetSum(1..NCps(beam),
                 [i \in 1..NCps(beam) |-> RMul(value[i], PointWeight(beam, i))]),
         TotalPointWeight(beam))

\* 1 when the flag holds at the control point, else 0
Indicator(flag) == IF flag THEN ROne ELSE RZero

\* C25: LG, MAD, EFS, TG, PI, EM, SAS5, SAS10 and psmall of a beam are each
\* the meterset-weighted mean sum(value_i x w_i) / sum(w_i) of the per-control-
\* point values, w_i being the non-negative step of the cumulative weight.
SecondaryMetricsAreMetersetWeightedMeans ==
    \A n \in Computed :
        LET beam == plan.beams[n]
            m == beam_metrics[n]
            points == 1..NCps(beam)
            mlc(i) == beam.control_points[i].mlc_positions
            jaw(i) == beam.control_points[i].jaw_positions
            area(i) == calculate_aperture_area(mlc(i), beam.mlc_leaf_widths, jaw(i))
            perimeter(i) ==
                calculate_aperture_perimeter(mlc(i), beam.mlc_leaf_widths, jaw(i))
            irregularity(i) ==
                calculate_aperture_irregularity(mlc(i), beam.mlc_leaf_widths, jaw(i))
            Mean(value) == MetersetWeightedMean(beam, value)
        IN  RLt(RZero, TotalPointWeight(beam)) =>
              /\ m.LG = Mean([i \in points |-> calculate_leaf_gap(mlc(i))])
              /\ m.MAD = Mean([i \in points |-> calculate_mad(mlc(i))])
              /\ m.EFS = Mean([i \in points |-> calculate_efs(area(i), perimeter(i))])
              /\ m.TG = Mean([i \in points |->
                                calculate_tongue_and_groove(mlc(i), beam.mlc_leaf_widths)])
              /\ m.PI.r = Mean([i \in points |-> irregularity(i).r])
              /\ m.PI.ipi = Mean([i \in points |-> irregularity(i).ipi])
              /\ m.EM = Mean([i \in points |->
                                IF area(i) > 0 THEN Rat(perimeter(i), 2 * area(i))
                                ELSE RZero])
              /\ m.SAS5 = Mean([i \in points |->
                                  Indicator(check_small_apertures(mlc(i)).below_5mm)])
              /\ m.SAS10 = Mean([i \in points |->
                                   Indicator(check_small_apertures(mlc(i)).below_10mm)])
              /\ m.psmall = Mean([i \in points |->
                                    Indicator(area(i) > 0 /\ area(i) < 4 * 400)])


\* the jaw area (x2 - x1)(y2 - y1) / 100 of control point i, lengths being
\* in units of 0.5 mm as everywhere
PointJawArea(beam, i) ==
    LET jaw == beam.control_points[i].jaw_positions
    IN  Rat((jaw.x2 - jaw.x1) * (jaw.y2 - jaw.y1), 100)

\* C26: JA of a beam is the arithmetic mean over its control points of the
\* per-control-point jaw area, and so lies between the smallest and the
\* largest of them, also when some control points have no open aperture.
JawAreaIsMeanOverControlPoints ==
    \A n \in Computed :
        LET beam == plan.beams[n]
            points == 1..NCps(beam)
        IN  NCps(beam) > 0 =>
              /\ beam_metrics[n].JA =
                     RDiv(RSetSum(points, [i \in points |-> PointJawArea(beam, i)]),
                          RInt(NCps(beam)))
              /\ \E i \in points : RLe(PointJawArea(beam, i), beam_metrics[n].JA)
              /\ \E i \in points : RLe(beam_metrics[n].JA, PointJawArea(beam, i))

-----------------------------------------------------------------------------
(* Properties of calculate_aperture_perimeter                              *)

\* the leaf pairs the walk of the returned call visits
Rows == 1..Min2(Len(fn_call[1].mlc_positions.bank_a),
                Len(fn_call[1].mlc_positions.bank_b))

\* the Y extent of leaf row k of the call, cut to the Y jaws
RowTop(k) ==
    Max2(WidthPrefix(fn_call[1].leaf_widths, k - 1)
             - Half(WidthPrefix(fn_call[1].leaf_widths, Cardinality(Rows))),
         fn_call[1].jaw_positions.y1)

RowBottom(k) ==
    Min2(WidthPrefix(fn_call[1].leaf_widths, k)
             - Half(WidthPrefix(fn_call[1].leaf_widths, Cardinality(Rows))),
         fn_call[1].jaw_positions.y2)

\* the X extent of the opening of leaf pair k of the call, cut to the X jaws
LeftEdge(k) == Max2(fn_call[1].mlc_positions.bank_a[k], fn_call[1].jaw_positions.x1)

RightEdge(k) == Min2(fn_call[1].mlc_positions.bank_b[k], fn_call[1].jaw_positions.x2)

\* leaf pair k is open: something of its row and of its gap is left
OpenRow(k) == k \in Rows /\ RowBottom(k) > RowTop(k) /\ RightEdge(k) > LeftEdge(k)

\* what the walk adds for the open leaf pair k: the top edge when it starts
\* a run, else the steps of the two banks; the end-caps; the bottom edge when
\* it ends a run
WalkTerm(k) ==
    (IF OpenRow(k - 1)
     THEN Abs(LeftEdge(k) - LeftEdge(k - 1)) + Abs(RightEdge(k) - RightEdge(k - 1))
     ELSE RightEdge(k) - LeftEdge(k))
    + 2 * (RowBottom(k) - RowTop(k))
    + (IF OpenRow(k + 1) THEN 0 ELSE RightEdge(k) - LeftEdge(k))

\* the unit squares of the aperture
ApertureCells ==
    UNION { (LeftEdge(k)..(RightEdge(k) - 1)) \X (RowTop(k)..(RowBottom(k) - 1)) :
            k \in { r \in Rows : OpenRow(r) } }

\* the length of the outline of a set of unit squares: its sides that are
\* not shared with another square of the set
OutlineLength(cells) ==
    Cardinality({ cd \in cells \X { <<1, 0>>, <<-1, 0>>, <<0, 1>>, <<0, -1>> } :
                    <<cd[1][1] + cd[2][1], cd[1][2] + cd[2][2]>> \notin cells })

\* the open leaf pairs form one run in which the openings of neighbouring
\* pairs overlap
OneOverlappingRun ==
    /\ \E k \in Rows : OpenRow(k)
    /\ \A k, l \in Rows : (OpenRow(k) /\ OpenRow(l) /\ k < l) =>
           \A r \in k..l : OpenRow(r)
    /\ \A k \in Rows : (OpenRow(k) /\ OpenRow(k + 1)) =>
           Max2(LeftEdge(k), LeftEdge(k + 1)) < Min2(RightEdge(k), RightEdge(k + 1))

\* C27: calculate_aperture_perimeter adds, for the first open leaf of a run,
\* its top edge, for each further open leaf of the run the steps of the left
\* and right edges, for every open leaf end-caps of twice its effective width,
\* and closes a run with the bottom edge; for one run of open leaves with
\* overlapping neighbouring openings the result is the length of the outline
\* of the aperture, 2 x (gap + width) for a single open leaf pair.
PerimeterIsOutlineOfOverlappingRun ==
    Returned("calculate_aperture_perimeter") =>
        LET open == { k \in Rows : OpenRow(k) }
        IN  /\ fn_result[1] = SetSum(open, [k \in open |-> WalkTerm(k)])
            /\ OneOverlappingRun => fn_result[1] = OutlineLength(ApertureCells)
            /\ \A k \in open :
                   open = { k } =>
                       fn_result[1] = 2 * ((RightEdge(k) - LeftEdge(k))
                                           + (RowBottom(k) - RowTop(k)))

\* the perimeter of a run of two leaf pairs with different, overlapping
\* openings has been computed
SteppedRunMeasured ==
    /\ Returned("calculate_aperture_perimeter")
    /\ OneOverlappingRun
    /\ \E k \in Rows :
           /\ OpenRow(k)
           /\ OpenRow(k + 1)
           /\ LeftEdge(k) # LeftEdge(k + 1)
    /\ fn_result[1] = OutlineLength(ApertureCells)

\* C28: calculate_aperture_area and calculate_aperture_perimeter agree on
\* which leaf pairs are open: for every MLC position set, leaf-width list and
\* jaw setting the area is positive if and only if the perimeter is.
AreaPositiveIffPerimeterPositive ==
    Returned("calculate_aperture_perimeter") =>
        (calculate_aperture_area(fn_call[1].mlc_positions, fn_call[1].leaf_widths,
                                 fn_call[1].jaw_positions) > 0
            <=> fn_result[1] > 0)

-----------------------------------------------------------------------------
(* Beam MU and arc length                                                  *)

\* C29: one beam MU is used throughout a call of calculate_beam_metrics: the
\* average dose rate and MU_per_degree of the delivery estimate are computed
\* from the beam_mu that is reported, so a beam whose MU is unset or 0 has no
\* dose-rate-limited time and an average dose rate of 0.
OneBeamMuThroughout ==
    BeamJustComputed =>
        LET m == beam_metrics[b]
            acc == DeliveryLoop(CurBeam, control_point_metrics, DEFAULT_MACHINE_PARAMS,
                                Max2(0, NCps(CurBeam) - 1))
            sweep == Abs(CurBeam.gantry_angle_end - CurBeam.gantry_angle_start)
        IN  /\ RLt(RZero, m.estimated_delivery_time) =>
                   m.avg_dose_rate =
                       RMul(RDiv(RInt(m.beam_mu), m.estimated_delivery_time), RInt(60))
            /\ m.MU_per_degree # None =>
                   RMul(m.MU_per_degree[1], RInt(sweep)) = RInt(m.beam_mu)
            /\ m.beam_mu = 0 =>
                   /\ acc.dose_rate_limited_time = RZero
                   /\ m.avg_dose_rate = RZero


\* C30: for every arc of at least two control points GT, which is
\* arc_length, equals |gantry_angle_end - gantry_angle_start|, and
\* MU_per_degree is computed over that same arc length: MU_per_degree x
\* arc_length is the beam MU when both are present and the MU is set.
ArcLengthIsGantrySweep ==
    \A i \in Computed :
        LET beam == plan.beams[i]
            m == beam_metrics[i]
        IN  (beam.is_arc /\ NCps(beam) >= 2) =>
              /\ m.GT = m.arc_length
              /\ m.GT = Some(Abs(beam.gantry_angle_end - beam.gantry_angle_start))
              /\ (m.MU_per_degree # None /\ m.arc_length # None
                     /\ Truthy(beam.beam_dose)) =>
                     RMul(m.MU_per_degree[1], RInt(m.arc_length[1])) = RInt(m.beam_mu)

=============================================================================
